---- MODULE Spec2Model ----
(***************************************************************************)
(* Model of the fillanthropist server: the signature verifier              *)
(* (src/server/signature.ts), the /broadcast ingestion handler, the        *)
(* in-memory BroadcastStore and the WebSocketManager fan-out.              *)
(*                                                                         *)
(* Strings are kept exactly, in run-length form: a string is a sequence of *)
(* runs <<ch, n>> (n >= 1, adjacent runs have different characters), so    *)
(* '0x' + '0'.repeat(128) is << <<"0",1>>, <<"x",1>>, <<"0",128>> >>.      *)
(* Decimal strings of integers (expires, nonce, ...) are kept as integers, *)
(* except in the intents of HashSpec, which keep them as strings.          *)
(***************************************************************************)
EXTENDS Integers, Sequences, FiniteSets, TLC

\* ------------------------------------------------------------ strings

HexChars ==
    {"0","1","2","3","4","5","6","7","8","9",
     "a","b","c","d","e","f","A","B","C","D","E","F"}

\* String.prototype.repeat
Rep(c, n) == IF n = 0 THEN <<>> ELSE << <<c, n>> >>

\* a + b on strings
Concat(a, b) ==
    IF a = <<>> THEN b
    ELSE IF b = <<>> THEN a
    ELSE IF a[Len(a)][1] = b[1][1]
         THEN SubSeq(a, 1, Len(a) - 1)
                \o << <<b[1][1], a[Len(a)][2] + b[1][2]>> >> \o Tail(b)
         ELSE a \o b

RECURSIVE StrLen(_)
StrLen(s) == IF s = <<>> THEN 0 ELSE s[1][2] + StrLen(Tail(s))

\* s.slice(k)
RECURSIVE Slice(_, _)
Slice(s, k) ==
    IF k = 0 \/ s = <<>> THEN s
    ELSE IF s[1][2] > k THEN << <<s[1][1], s[1][2] - k>> >> \o Tail(s)
    ELSE Slice(Tail(s), k - s[1][2])

\* s.slice(0, k)
RECURSIVE Take(_, _)
Take(s, k) ==
    IF k = 0 \/ s = <<>> THEN <<>>
    ELSE IF s[1][2] >= k THEN << <<s[1][1], k>> >>
    ELSE <<s[1]>> \o Take(Tail(s), k - s[1][2])

\* s[i - 1] (1-based here); "" past the end
CharAt(s, i) ==
    LET t == Slice(s, i - 1) IN IF t = <<>> THEN "" ELSE t[1][1]

\* value.startsWith('0x')
StartsWith0x(s) == CharAt(s, 1) = "0" /\ CharAt(s, 2) = "x"

\* /^[0-9a-fA-F]+$/.test(hex)
IsHexRegex(s) == s # <<>> /\ \A i \in 1..Len(s) : s[i][1] \in HexChars

LowerOf(c) ==
    CASE c = "A" -> "a" [] c = "B" -> "b" [] c = "C" -> "c"
      [] c = "D" -> "d" [] c = "E" -> "e" [] c = "F" -> "f"
      [] OTHER -> c

\* String.prototype.toLowerCase
RECURSIVE ToLowerCase(_)
ToLowerCase(s) ==
    IF s = <<>> THEN <<>>
    ELSE Concat(<< <<LowerOf(s[1][1]), s[1][2]>> >>, ToLowerCase(Tail(s)))

\* a string literal, given character by character
RECURSIVE Lit(_)
Lit(cs) == IF cs = <<>> THEN <<>> ELSE Concat(Rep(cs[1], 1), Lit(Tail(cs)))

Hex0x(body) == Concat(Lit(<<"0", "x">>), body)

\* ------------------------------------------------------------ hashing

\* JS undefined / a missing optional field
NoValue == <<>>

\* keccak256: collision-free, so a hash is its labelled preimage
Keccak(x) == <<"keccak256", x>>

CHAIN_PREFIXES ==
    [ethereum |-> "0x1901afbd5f3d34c216b31ba8b82d0b32ae91e4edea92dd5bbf4c1ad028f72364a211",
     unichain |-> "0x190150e2b173e1ac2eac4e4995e45458f4cd549c256c423a041bf17d0c0a4a736d2c",
     base     |-> "0x1901a1324f3bfe91ee592367ae7552e9348145e65b410335d72e4507dcedeb41bf52",
     optimism |-> "0x1901ea25de9c16847077fe9d95916c29598dc64f4850ba02c5dbe7800d2e2ecb338e"]

ALLOCATOR_ADDRESS ==
    Lit(<<"0","x","5","1","0","4","4","3","0","1","7","3","8","B","a","2","a","2",
          "7","b","d","9","3","3","2","5","1","0","5","6","5","e","B","E","9","F",
          "0","3","5","4","6","b">>)

COMPACT_REGISTRATION_TYPEHASH ==
    "0x27f09e0bb8ce2ae63380578af7af85055d3ada248c502e2378b85bc3d05ee0b0"

MANDATE_TYPE_STRING ==
    "Mandate(uint256 chainId,address tribunal,address recipient,uint256 expires,address token,uint256 minimumAmount,uint256 baselinePriorityFee,uint256 scalingFactor,bytes32 salt)"

COMPACT_TYPE_STRING ==
    "Compact(address arbiter,address sponsor,uint256 nonce,uint256 expires,uint256 id,uint256 amount,Mandate mandate)Mandate(uint256 chainId,address tribunal,address recipient,uint256 expires,address token,uint256 minimumAmount,uint256 baselinePriorityFee,uint256 scalingFactor,bytes32 salt)"

\* viem's isAddress, as encodeAbiParameters applies it to an 'address' value:
\* 0x and 40 hex digits, all lower-case or carrying a correct checksum
\* (ALLOCATOR_ADDRESS is the one checksummed sample).
isAddress(a) ==
    /\ StartsWith0x(a)
    /\ StrLen(Slice(a, 2)) = 40
    /\ IsHexRegex(Slice(a, 2))
    /\ (ToLowerCase(a) = a \/ a = ALLOCATOR_ADDRESS)

\* the 32-byte word encodeAbiParameters writes for an address
AbiAddress(a) == ToLowerCase(a)

\* encodeAbiParameters throws InvalidAddressError on a bad address
MandateEncodable(mandate) ==
    isAddress(mandate.tribunal) /\ isAddress(mandate.recipient) /\ isAddress(mandate.token)

deriveMandateHash(mandate) ==
    Keccak(<<Keccak(MANDATE_TYPE_STRING), mandate.chainId,
             AbiAddress(mandate.tribunal), AbiAddress(mandate.recipient),
             mandate.expires, AbiAddress(mandate.token), mandate.minimumAmount,
             mandate.baselinePriorityFee, mandate.scalingFactor, mandate.salt>>)

\* signature.ts deriveClaimHash: whether it returns (TRUE) or throws (FALSE)
ClaimHashDerivable(compact) ==
    MandateEncodable(compact.mandate) /\ isAddress(compact.arbiter) /\ isAddress(compact.sponsor)

deriveClaimHash(arbiter, sponsor, nonce, expiration, id, amount, mandate) ==
    Keccak(<<Keccak(COMPACT_TYPE_STRING), AbiAddress(arbiter), AbiAddress(sponsor),
             nonce, expiration, id, amount, deriveMandateHash(mandate)>>)

\* ------------------------------------------------------------ signatures

\* The key holders of the model and their addresses (as recoverAddress
\* returns them).  "mallory" is any key other than the sponsor's and the
\* allocator's.
Keys == {"sponsor", "mallory", "allocator"}

SPONSOR_ADDRESS == Hex0x(Rep("a", 40))

MALLORY_ADDRESS == Hex0x(Rep("c", 40))

\* what recovery yields when the signature was made over another digest
STRAY_ADDRESS == Hex0x(Rep("e", 40))

AddressOf(key) ==
    CASE key = "sponsor"   -> SPONSOR_ADDRESS
      [] key = "mallory"   -> MALLORY_ADDRESS
      [] key = "allocator" -> ALLOCATOR_ADDRESS

KeyChar(key) ==
    CASE key = "sponsor" -> "1" [] key = "mallory" -> "2" [] key = "allocator" -> "3"

PrefixChar(prefix) ==
    CASE prefix = CHAIN_PREFIXES.ethereum -> "1"
      [] prefix = CHAIN_PREFIXES.optimism -> "2"
      [] prefix = CHAIN_PREFIXES.base     -> "3"
      [] prefix = CHAIN_PREFIXES.unichain -> "4"
      [] OTHER -> "0"

\* the compact expiries and registration expiries of the sample requests
\* (UNIX seconds, relative to the model's clock origin)
ExpirySamples == {7000, 9000}

\* the sample intent: every field but compact.expires is fixed
SampleMandate ==
    [chainId |-> 10, tribunal |-> Hex0x(Rep("1", 40)), recipient |-> Hex0x(Rep("2", 40)),
     expires |-> 9000, token |-> Hex0x(Rep("3", 40)), minimumAmount |-> 5,
     baselinePriorityFee |-> 1, scalingFactor |-> 2, salt |-> "0x01"]

SampleCompact(id, expires) ==
    [arbiter |-> Hex0x(Rep("4", 40)), sponsor |-> SPONSOR_ADDRESS, nonce |-> 1,
     expires |-> expires, id |-> id, amount |-> 10, mandate |-> SampleMandate]

CompactHash(compact) ==
    deriveClaimHash(compact.arbiter, compact.sponsor, compact.nonce, compact.expires,
                    compact.id, compact.amount, compact.mandate)

\* a claim hash that belongs to some other intent
FOREIGN_HASH == Keccak(<<"another intent">>)

\* The claim hashes of the sample world, in a fixed order: a signature
\* carries the position of the hash it was made over.
HashSamples ==
    <<FOREIGN_HASH,
      CompactHash(SampleCompact(1, 7000)), CompactHash(SampleCompact(1, 9000)),
      CompactHash(SampleCompact(2, 7000)), CompactHash(SampleCompact(2, 9000))>>

HashChar(h) ==
    IF \E i \in 1..Len(HashSamples) : HashSamples[i] = h
    THEN <<"1","2","3","4","5">>[CHOOSE i \in 1..Len(HashSamples) : HashSamples[i] = h]
    ELSE "0"

\* The 64-byte compact signature key makes over keccak256(prefix || claimHash):
\* three digits that bind the key, the prefix and the claim hash, then padding.
Sign(key, prefix, claimHash) ==
    Hex0x(Concat(Lit(<<KeyChar(key), PrefixChar(prefix), HashChar(claimHash)>>),
                 Rep("0", 125)))

\* viem recoverAddress on the digest keccak256(prefix || claimHash): the
\* signer's address when the signature was made over this digest by a key
\* holder, some unrelated address otherwise.
recoverAddress(prefix, claimHash, sig) ==
    IF /\ \E k \in Keys : KeyChar(k) = CharAt(sig, 1)
       /\ CharAt(sig, 2) = PrefixChar(prefix) /\ PrefixChar(prefix) # "0"
       /\ CharAt(sig, 3) = HashChar(claimHash) /\ HashChar(claimHash) # "0"
    THEN AddressOf(CHOOSE k \in Keys : KeyChar(k) = CharAt(sig, 1))
    ELSE STRAY_ADDRESS

\* parseCompactSignature reads the 64 bytes after '0x' and throws on fewer
\* or on a non-hex digit
CompactSignatureParses(sig) ==
    LET c == Take(Slice(sig, 2), 128) IN StrLen(c) = 128 /\ IsHexRegex(c)

verifySignature(claimHash, signature, expectedSigner, chainPrefix) ==
    LET normalizedSignature ==
            IF StartsWith0x(signature) THEN signature ELSE Hex0x(signature)
    IN  \* any throw inside the try block is caught and yields false
        /\ CompactSignatureParses(normalizedSignature)
        /\ ToLowerCase(recoverAddress(chainPrefix, claimHash,
                                      Take(Slice(normalizedSignature, 2), 128)))
             = ToLowerCase(expectedSigner)

\* ------------------------------------------------------------ server state

MaxConns == 2
MaxTicks == 3

\* the clock at the start, in ms: 7200 s
ClockOrigin == 7200000

SEND_TIMEOUT_MS == 5000
RECEIPT_TIMEOUT_MS == 5000
BROADCAST_TIMEOUT_MS == 10000
MAX_AGE_MS == 86400000

\* the clock advances by the shortest timer of the server
TickMs == RECEIPT_TIMEOUT_MS

\* a due timer callback runs at its deadline or at most this much later
TimerSlackMs == TickMs

Conns == 1..MaxConns
\* the /broadcast requests being handled: Express enters the handler again
\* while an earlier call awaits its broadcast
Handlers == {1, 2}
\* a server that is sent its requests one after the other
OneAtATime == {1}
MaxTime == ClockOrigin + MaxTicks * TickMs

VARIABLES
    now,                \* Date.now()
    requests,           \* BroadcastStore.requests: id -> StoredRequest (NoValue: absent)
    clients,            \* WebSocketManager.clients
    readyState,         \* of each socket: "NONE" (not yet connected), "OPEN", "CLOSING", "CLOSED"
    newRequestsSent,    \* [handler][conn]: newRequest envelopes handed to client.send
    pc,                 \* of each /broadcast handler: "idle", "lockDetails", "broadcasting", "responded"
    payload,            \* req.body
    work,               \* hashing and oracle work the handler has started
    storedRequest,      \* the handler's storedRequest, NoValue before line 289
    response,           \* what the handler answered, NoValue before
    startTime,          \* when broadcastRequest was called
    broadcast,          \* broadcastPromise: "none", "pending", "resolved"
    wait,               \* [handler][conn] sendPromises entry: "none", "pending", "skipped",
                        \*   "acked", "receiptTimeout", "sendFailed"
    sending,            \* [handler][conn] sendWithTimeout promise: "none", "pending", "sent", "failed"
    receiptTimer,       \* [handler][conn] receiptTimeout is armed
    listener,           \* [handler][conn] messageHandler is registered on the socket
    successCount,
    failCount,
    openAtStart         \* history: the connections that were OPEN when the broadcast started

serverVars ==
    <<now, requests, clients, readyState, newRequestsSent, pc, payload, work,
      storedRequest, response, startTime, broadcast, wait, sending, receiptTimer,
      listener, successCount, failCount, openAtStart>>

\* the longest history of the store that is followed: jumps of the clock and
\* POST /broadcast requests handled one after the other
MaxElapses == 3
MaxIngests == 2

VARIABLES
    storeCalls,         \* history: the BroadcastStore calls of the last step that made one
    elapses,            \* jumps of the clock so far
    ingests             \* POST /broadcast requests answered so far

quotaVars == <<elapses, ingests>>
storeVars == <<storeCalls, elapses, ingests>>

VARIABLES
    isAlive,            \* ws.isAlive of each socket
    pingInterval,       \* the setInterval of each connection is armed
    wssState,           \* of the WebSocketServer: "listening", "closing", "closed"
    ticks,              \* history: heartbeat ticks of a connection so far (0, 1, 2 = more)
    signalled,          \* history: a liveness signal has arrived since the last tick
    lastBeat            \* history: what the last tick of a connection found and did

heartVars == <<isAlive, pingInterval, wssState, ticks, signalled, lastBeat>>

\* the sockets the viewer opens, one after the other
MaxSockets == 4
Sockets == 1..MaxSockets

maxReconnectDelay == 30000

VARIABLES
    socket,                 \* the viewer's WebSockets: "NONE" (not created), "CONNECTING",
                            \*   "OPEN", "CLOSING", "ABORTING" (closed while connecting), "CLOSED"
    closure,                \* shouldReconnect as captured by the connect that made the socket
    wsRef,                  \* wsRef.current: a socket, or 0 for null
    timers,                 \* the pending reconnect timeouts
    reconnectTimeoutRef,    \* reconnectTimeoutRef.current: the id of a timeout, NoValue for null
    reconnectAttemptsRef,   \* reconnectAttemptsRef.current
    shouldReconnect,        \* the state of useWebSocket
    isConnected,            \* the state of useWebSocket
    hookDue,                \* connect has a new identity: the effect of useWebSocket runs again
    fetchDue,               \* generateClientKey has a new identity: the fetch effect runs again
    viewRequests,           \* the ids of the requests state of App
    owed,                   \* newRequest envelopes on their way to each socket
    drops,                  \* history: connections closed since the last successful open
    lastWait,               \* history: the delay the last close handler scheduled
    opens,                  \* history: successful opens so far (0, 1, 2 = more)
    missed                  \* history: ids relayed while the viewer had no open socket

viewerVars ==
    <<socket, closure, wsRef, timers, reconnectTimeoutRef, reconnectAttemptsRef,
      shouldReconnect, isConnected, hookDue, fetchDue, viewRequests, drops, lastWait,
      opens>>
clientVars == <<viewerVars, owed, missed>>

\* ------------------------------------------------------------ settlement arithmetic

\* The fixed-point unit. The code's is BigInt(1e18), beyond the integers TLC
\* computes with; the functions are computed here in a unit of 20, with
\* amounts and scaling factors of the same order as the unit.
WAD == 20

MaxAmount == 45
MaxMinimum == 22
MaxBaseline == 2
MaxCalls == 3

\* scaling factors: exact-out (below the unit), neutral, exact-in (above)
ScalingFactors == {WAD \div 2, WAD - 1, WAD, WAD + 1, WAD + WAD \div 2, 2 * WAD}

\* a / b on bigints, b > 0: the quotient is truncated toward zero
BigIntDiv(a, b) == IF a >= 0 THEN a \div b ELSE 0 - ((0 - a) \div b)

\* what a call yields: a bigint, or the Error it threw
Returned(v) == [threw |-> FALSE, error |-> "", value |-> v]
Threw(message) == [threw |-> TRUE, error |-> message, value |-> 0]

\* a forward function that leaves the unit out of the multiplier
deriveSettlementAmountNoUnit(priorityFee, minimumAmount, baselinePriorityFee, scalingFactor) ==
    LET priorityFeeAboveBaseline ==
            IF priorityFee < baselinePriorityFee THEN 0 ELSE priorityFee - baselinePriorityFee
    IN  IF priorityFeeAboveBaseline = 0 \/ scalingFactor = WAD THEN Returned(minimumAmount)
        ELSE IF scalingFactor > WAD
        THEN LET scalingMultiplier == (scalingFactor - WAD) * priorityFeeAboveBaseline
             IN  Returned(BigIntDiv(minimumAmount * scalingMultiplier + WAD - 1, WAD))
        ELSE Threw("unimplemented")

\* a forward function whose division rounds down
deriveSettlementAmountRoundsDown(priorityFee, minimumAmount, baselinePriorityFee, scalingFactor) ==
    LET priorityFeeAboveBaseline ==
            IF priorityFee < baselinePriorityFee THEN 0 ELSE priorityFee - baselinePriorityFee
    IN  IF priorityFeeAboveBaseline = 0 \/ scalingFactor = WAD THEN Returned(minimumAmount)
        ELSE IF scalingFactor > WAD
        THEN LET scalingMultiplier == WAD + (scalingFactor - WAD) * priorityFeeAboveBaseline
             IN  Returned(BigIntDiv(minimumAmount * scalingMultiplier, WAD))
        ELSE Threw("unimplemented")

\* a forward function without the test for a scaling factor of one unit
deriveSettlementAmountNoWadShortcut(priorityFee, minimumAmount, baselinePriorityFee, scalingFactor) ==
    LET priorityFeeAboveBaseline ==
            IF priorityFee < baselinePriorityFee THEN 0 ELSE priorityFee - baselinePriorityFee
    IN  IF priorityFeeAboveBaseline = 0 THEN Returned(minimumAmount)
        ELSE IF scalingFactor > WAD
        THEN LET scalingMultiplier == WAD + (scalingFactor - WAD) * priorityFeeAboveBaseline
             IN  Returned(BigIntDiv(minimumAmount * scalingMultiplier + WAD - 1, WAD))
        ELSE Threw("unimplemented")

\* a forward function that answers the minimum for exact-out
deriveSettlementAmountExactOutReturnsMinimum(priorityFee, minimumAmount, baselinePriorityFee, scalingFactor) ==
    LET priorityFeeAboveBaseline ==
            IF priorityFee < baselinePriorityFee THEN 0 ELSE priorityFee - baselinePriorityFee
    IN  IF priorityFeeAboveBaseline = 0 \/ scalingFactor = WAD THEN Returned(minimumAmount)
        ELSE IF scalingFactor > WAD
        THEN LET scalingMultiplier == WAD + (scalingFactor - WAD) * priorityFeeAboveBaseline
             IN  Returned(BigIntDiv(minimumAmount * scalingMultiplier + WAD - 1, WAD))
        ELSE Returned(minimumAmount)

\* part_003 lines 12-38
deriveSettlementAmount(priorityFee, minimumAmount, baselinePriorityFee, scalingFactor) ==
    LET priorityFeeAboveBaseline ==
            IF priorityFee < baselinePriorityFee THEN 0 ELSE priorityFee - baselinePriorityFee
    IN  IF priorityFeeAboveBaseline = 0 \/ scalingFactor = WAD THEN Returned(minimumAmount)
        ELSE IF scalingFactor > WAD
        THEN LET scalingMultiplier == WAD + (scalingFactor - WAD) * priorityFeeAboveBaseline
             IN  Returned(BigIntDiv(minimumAmount * scalingMultiplier + WAD - 1, WAD))
        ELSE Threw("unimplemented")

\* an inverse that returns the fee above the baseline, the baseline not added
derivePriorityFeeAboveBaseline(desiredSettlement, minimumAmount, baselinePriorityFee, scalingFactor) ==
    IF desiredSettlement = minimumAmount \/ scalingFactor = WAD
    THEN Returned(baselinePriorityFee)
    ELSE IF scalingFactor > WAD
    THEN LET leftSide == desiredSettlement * WAD
             remainder == leftSide - minimumAmount * WAD
             divisor == minimumAmount * (scalingFactor - WAD)
         IN  IF divisor = 0 THEN Threw("RangeError: Division by zero")
             ELSE Returned(BigIntDiv(remainder, divisor))
    ELSE Threw("unimplemented")

\* an inverse without the test for a settlement equal to the minimum
derivePriorityFeeNoShortcut(desiredSettlement, minimumAmount, baselinePriorityFee, scalingFactor) ==
    IF scalingFactor = WAD
    THEN Returned(baselinePriorityFee)
    ELSE IF scalingFactor > WAD
    THEN LET leftSide == desiredSettlement * WAD
             remainder == leftSide - minimumAmount * WAD
             divisor == minimumAmount * (scalingFactor - WAD)
         IN  IF divisor = 0 THEN Threw("RangeError: Division by zero")
             ELSE Returned(BigIntDiv(remainder, divisor) + baselinePriorityFee)
    ELSE Threw("unimplemented")

\* an inverse whose division rounds the fee up
derivePriorityFeeRoundsUp(desiredSettlement, minimumAmount, baselinePriorityFee, scalingFactor) ==
    IF desiredSettlement = minimumAmount \/ scalingFactor = WAD
    THEN Returned(baselinePriorityFee)
    ELSE IF scalingFactor > WAD
    THEN LET leftSide == desiredSettlement * WAD
             remainder == leftSide - minimumAmount * WAD
             divisor == minimumAmount * (scalingFactor - WAD)
         IN  IF divisor = 0 THEN Threw("RangeError: Division by zero")
             ELSE Returned(BigIntDiv(remainder + divisor - 1, divisor) + baselinePriorityFee)
    ELSE Threw("unimplemented")

\* part_003 lines 48-77; a bigint division by 0n throws a RangeError
derivePriorityFee(desiredSettlement, minimumAmount, baselinePriorityFee, scalingFactor) ==
    IF desiredSettlement = minimumAmount \/ scalingFactor = WAD
    THEN Returned(baselinePriorityFee)
    ELSE IF scalingFactor > WAD
    THEN LET leftSide == desiredSettlement * WAD
             remainder == leftSide - minimumAmount * WAD
             divisor == minimumAmount * (scalingFactor - WAD)
         IN  IF divisor = 0 THEN Threw("RangeError: Division by zero")
             ELSE Returned(BigIntDiv(remainder, divisor) + baselinePriorityFee)
    ELSE Threw("unimplemented")

VARIABLES
    mathPc,     \* "idle", or "calls" while the two functions are being called
    mathArgs,   \* the first call and its arguments
    chain       \* the outcomes of the calls: each call after the first is the other
                \*   function, on the value the call before it returned

mathVars == <<mathPc, mathArgs, chain>>

MathIdle ==
    /\ mathPc = "idle"
    /\ mathArgs = <<>>
    /\ chain = <<>>

\* ------------------------------------------------------------ verifyBroadcastRequest

VARIABLES
    request,                \* the request object verify was handed (it mutates it)
    received,               \* the same request as it was when verify was called
    verifyPc,               \* "start", "sponsor", "registration", "allocator", "returned", "threw"
    chainPrefix,
    claimHash,
    isSponsorValid,
    isOnchainRegistration,
    registrationStatus,     \* null (NoValue) or what the oracle returned
    verifyResult,           \* the resolved value, NoValue until then
    calls,                  \* the work done so far: hashing, recoveries, oracle queries
    oracle                  \* what getRegistrationStatus does for this request

verifyVars ==
    <<request, received, verifyPc, chainPrefix, claimHash, isSponsorValid,
      isOnchainRegistration, registrationStatus, verifyResult, calls, oracle>>

\* ------------------------------------------------------------ deriveClaimHash calls

VARIABLES
    hashPc,     \* "idle", or "calls" while the two intents are being hashed
    hashArgs,   \* the two intents (CompactMessage objects, fields as they were received)
    hashOut     \* what each call made so far yielded, by <<implementation, intent>>

hashVars == <<hashPc, hashArgs, hashOut>>

HashIdle ==
    /\ hashPc = "idle"
    /\ hashArgs = <<>>
    /\ hashOut = <<>>

\* ------------------------------------------------------------ frames on the wire

VARIABLES
    heard,      \* history: <<connection, frame>> of the last frame the relay noted
    replied     \* history: the last frame a viewer socket got and what it did with it

wireVars == <<heard, replied>>

vars ==
    <<serverVars, verifyVars, mathVars, storeVars, heartVars, clientVars, hashVars, wireVars>>

SupportedChainIds == {"1", "10", "8453", "130"}

\* the switch on request.chainId
ChainPrefixOf(chainId) ==
    CASE chainId = "1"    -> CHAIN_PREFIXES.ethereum
      [] chainId = "10"   -> CHAIN_PREFIXES.optimism
      [] chainId = "8453" -> CHAIN_PREFIXES.base
      [] chainId = "130"  -> CHAIN_PREFIXES.unichain

\* a placeholder of 32 zero bytes
ZeroSignatureShort == Hex0x(Rep("0", 64))

\* '0x' + '0'.repeat(128)
ZeroSignature == Hex0x(Rep("0", 128))

OracleOutcomes ==
    {[throws |-> TRUE, isActive |-> FALSE, expires |-> 0],
     [throws |-> FALSE, isActive |-> FALSE, expires |-> 0]}
    \cup {[throws |-> FALSE, isActive |-> TRUE, expires |-> e] : e \in ExpirySamples}

\* signature strings a caller may send
SignatureSamples(compact) ==
    {Sign(k, p, h) : k \in Keys, p \in {CHAIN_PREFIXES.ethereum, CHAIN_PREFIXES.base},
                     h \in {CompactHash(compact), FOREIGN_HASH}}
    \cup {Hex0x(Rep("1", 64)), Hex0x(Concat(Rep("1", 127), Rep("g", 1)))}

VerifyRequests ==
    UNION {
      {[chainId |-> c, compact |-> SampleCompact(1, e), sponsorSignature |-> ss,
        allocatorSignature |-> as, claimHash |-> h] :
          c \in {"1", "8453", "999"},
          ss \in SignatureSamples(SampleCompact(1, e)),
          as \in SignatureSamples(SampleCompact(1, e)),
          h \in {NoValue, CompactHash(SampleCompact(1, e)), FOREIGN_HASH}}
      : e \in ExpirySamples }

VerifyInit ==
    /\ request \in VerifyRequests
    /\ received = request
    /\ oracle \in OracleOutcomes
    /\ verifyPc = "start"
    /\ chainPrefix = NoValue
    /\ claimHash = NoValue
    /\ isSponsorValid = FALSE
    /\ isOnchainRegistration = FALSE
    /\ registrationStatus = NoValue
    /\ verifyResult = NoValue
    /\ calls = {}

\* a verify that derives the claim hash first and looks at the chain after
VerifyStartHashesFirst ==
    /\ verifyPc = "start"
    /\ calls' = IF request.claimHash # NoValue THEN calls ELSE calls \cup {"deriveClaimHash"}
    /\ IF request.chainId \notin SupportedChainIds
       THEN /\ verifyPc' = "threw"
            /\ UNCHANGED <<chainPrefix, claimHash>>
       ELSE /\ chainPrefix' = ChainPrefixOf(request.chainId)
            /\ claimHash' = IF request.claimHash # NoValue THEN request.claimHash
                            ELSE CompactHash(request.compact)
            /\ verifyPc' = "sponsor"
    /\ UNCHANGED <<wireVars, hashVars, mathVars, storeVars, heartVars, clientVars, serverVars, request, received, isSponsorValid, isOnchainRegistration,
                   registrationStatus, verifyResult, oracle>>

\* lines 171-199: the chain switch, then request.claimHash || deriveClaimHash(...)
VerifyStart ==
    /\ verifyPc = "start"
    /\ IF request.chainId \notin SupportedChainIds
       THEN /\ verifyPc' = "threw"
            /\ UNCHANGED <<chainPrefix, claimHash, calls>>
       ELSE /\ chainPrefix' = ChainPrefixOf(request.chainId)
            /\ IF request.claimHash # NoValue
               THEN /\ claimHash' = request.claimHash
                    /\ verifyPc' = "sponsor"
                    /\ UNCHANGED calls
               ELSE /\ calls' = calls \cup {"deriveClaimHash"}
                    /\ IF ClaimHashDerivable(request.compact)
                       THEN /\ claimHash' = CompactHash(request.compact)
                            /\ verifyPc' = "sponsor"
                       ELSE /\ verifyPc' = "threw"
                            /\ UNCHANGED claimHash
    /\ UNCHANGED <<wireVars, hashVars, mathVars, storeVars, heartVars, clientVars, serverVars, request, received, isSponsorValid, isOnchainRegistration,
                   registrationStatus, verifyResult, oracle>>

\* a verify that looks the registration up whatever the sponsor check said
VerifySponsorThenRegistry ==
    /\ verifyPc = "sponsor"
    /\ calls' = calls \cup {"sponsorSignature"}
    /\ isSponsorValid' =
          verifySignature(claimHash, request.sponsorSignature, request.compact.sponsor,
                          chainPrefix)
    /\ verifyPc' = "registration"
    /\ UNCHANGED <<wireVars, hashVars, mathVars, storeVars, heartVars, clientVars, serverVars, request, received, chainPrefix, claimHash, isOnchainRegistration,
                   registrationStatus, verifyResult, oracle>>

\* lines 201-224: the sponsor signature
VerifySponsor ==
    /\ verifyPc = "sponsor"
    /\ calls' = calls \cup {"sponsorSignature"}
    /\ isSponsorValid' =
          verifySignature(claimHash, request.sponsorSignature, request.compact.sponsor,
                          chainPrefix)
    /\ verifyPc' = IF isSponsorValid' THEN "allocator" ELSE "registration"
    /\ UNCHANGED <<wireVars, hashVars, mathVars, storeVars, heartVars, clientVars, serverVars, request, received, chainPrefix, claimHash, isOnchainRegistration,
                   registrationStatus, verifyResult, oracle>>

\* a verify without the catch around the registration lookup
RegistrationThrewPropagates ==
    /\ verifyPc' = "threw"
    /\ UNCHANGED <<request, isSponsorValid, isOnchainRegistration, registrationStatus,
                   verifyResult>>

\* lines 254-261: the catch around the registration lookup only logs
RegistrationThrew ==
    /\ verifyPc' = "returned"
    /\ verifyResult' = [isValid |-> FALSE, isOnchainRegistration |-> FALSE]
    /\ UNCHANGED <<request, isSponsorValid, isOnchainRegistration, registrationStatus>>

\* a verify that goes on to the allocator check without an established sponsor
SponsorNotEstablishedFallsThrough ==
    /\ verifyPc' = "allocator"
    /\ UNCHANGED <<request, isSponsorValid, isOnchainRegistration, verifyResult>>

\* lines 264-273: sponsor validity not established
SponsorNotEstablished ==
    /\ verifyPc' = "returned"
    /\ verifyResult' = [isValid |-> FALSE, isOnchainRegistration |-> FALSE]
    /\ UNCHANGED <<request, isSponsorValid, isOnchainRegistration>>

\* a fallback that takes the registration's expiry whatever the compact's
RegistrationActiveTakesRegistrationExpiry ==
    /\ isSponsorValid' = TRUE
    /\ isOnchainRegistration' = TRUE
    /\ request' =
          [request EXCEPT
             !.sponsorSignature = ZeroSignature,
             !.compact.expires = registrationStatus'.expires]
    /\ verifyPc' = "allocator"
    /\ UNCHANGED verifyResult

\* a fallback that also writes the claim hash it checked onto the request
RegistrationActiveRecordsClaimHash ==
    /\ isSponsorValid' = TRUE
    /\ isOnchainRegistration' = TRUE
    /\ request' =
          [request EXCEPT
             !.sponsorSignature = ZeroSignature,
             !.claimHash = claimHash,
             !.compact.expires =
                 IF registrationStatus'.expires < request.compact.expires
                 THEN registrationStatus'.expires
                 ELSE request.compact.expires]
    /\ verifyPc' = "allocator"
    /\ UNCHANGED verifyResult

\* lines 243-253: the registration is active
RegistrationActive ==
    /\ isSponsorValid' = TRUE
    /\ isOnchainRegistration' = TRUE
    /\ request' =
          [request EXCEPT
             !.sponsorSignature = ZeroSignature,
             !.compact.expires =
                 IF registrationStatus'.expires < request.compact.expires
                 THEN registrationStatus'.expires
                 ELSE request.compact.expires]
    /\ verifyPc' = "allocator"
    /\ UNCHANGED verifyResult

\* lines 226-273: the on-chain registration fallback
CheckRegistration ==
    /\ verifyPc = "registration"
    /\ calls' = calls \cup {"getRegistrationStatus"}
    /\ IF oracle.throws
       THEN RegistrationThrew
       ELSE /\ registrationStatus' = [isActive |-> oracle.isActive, expires |-> oracle.expires]
            /\ IF oracle.isActive THEN RegistrationActive ELSE SponsorNotEstablished
    /\ UNCHANGED <<wireVars, hashVars, mathVars, storeVars, heartVars, clientVars, serverVars, received, chainPrefix, claimHash, oracle>>

\* the allocator check made against the sponsor's address instead
VerifyAllocatorAgainstSponsor ==
    /\ verifyPc = "allocator"
    /\ calls' = calls \cup {"allocatorSignature"}
    /\ verifyResult' =
          [isValid |-> verifySignature(claimHash, request.allocatorSignature,
                                       request.compact.sponsor, chainPrefix),
           isOnchainRegistration |-> isOnchainRegistration]
    /\ verifyPc' = "returned"
    /\ UNCHANGED <<wireVars, hashVars, mathVars, storeVars, heartVars, clientVars, serverVars, request, received, chainPrefix, claimHash, isSponsorValid,
                   isOnchainRegistration, registrationStatus, oracle>>

\* lines 275-287: the allocator signature
VerifyAllocator ==
    /\ verifyPc = "allocator"
    /\ calls' = calls \cup {"allocatorSignature"}
    /\ verifyResult' =
          [isValid |-> verifySignature(claimHash, request.allocatorSignature,
                                       ALLOCATOR_ADDRESS, chainPrefix),
           isOnchainRegistration |-> isOnchainRegistration]
    /\ verifyPc' = "returned"
    /\ UNCHANGED <<wireVars, hashVars, mathVars, storeVars, heartVars, clientVars, serverVars, request, received, chainPrefix, claimHash, isSponsorValid,
                   isOnchainRegistration, registrationStatus, oracle>>

\* ------------------------------------------------------------ request samples

\* the chain the sample intents are signed for
SampleChainId == "1"

SignedPayload(id, expires, sponsorKey, allocatorKey) ==
    LET compact == SampleCompact(id, expires) IN
    [chainId |-> SampleChainId, compact |-> compact,
     sponsorSignature |-> Sign(sponsorKey, ChainPrefixOf(SampleChainId), CompactHash(compact)),
     allocatorSignature |-> Sign(allocatorKey, ChainPrefixOf(SampleChainId), CompactHash(compact)),
     claimHash |-> NoValue]

\* correctly signed and not expired at the clock origin
GoodPayload == SignedPayload(1, 9000, "sponsor", "allocator")

\* bodies that pass the format checks of the handler
WellFormedPayloads ==
    {GoodPayload,
     SignedPayload(1, 7000, "sponsor", "allocator"),   \* compact.expires already past
     SignedPayload(2, 9000, "sponsor", "mallory"),     \* allocator signature by another key
     SignedPayload(2, 9000, "mallory", "allocator")}   \* sponsor signature by another key

\* bodies with one malformed field each
MalformedPayloads ==
    {[GoodPayload EXCEPT !.compact.arbiter = Hex0x(Rep("4", 39))],
     [GoodPayload EXCEPT !.compact.sponsor = Rep("a", 42)],
     [GoodPayload EXCEPT !.compact.mandate.tribunal = Hex0x(Concat(Rep("1", 39), Rep("g", 1)))],
     [GoodPayload EXCEPT !.compact.mandate.recipient = Hex0x(Rep("2", 41))],
     [GoodPayload EXCEPT !.compact.mandate.token = Hex0x(<<>>)],
     [GoodPayload EXCEPT !.sponsorSignature = Hex0x(Rep("1", 127))],
     [GoodPayload EXCEPT !.allocatorSignature = Hex0x(<<>>)]}

\* bodies that pass the format checks and fail later validation
IncompletePayloads ==
    {[GoodPayload EXCEPT !.chainId = ""],
     [GoodPayload EXCEPT !.compact.mandate.salt = ""]}

Payloads == WellFormedPayloads \cup MalformedPayloads \cup IncompletePayloads

Ids == {p.compact.id : p \in Payloads}

\* ------------------------------------------------------------ ingestion handler

isValidHexString(value) ==
    /\ StartsWith0x(value)
    /\ LET hex == Slice(value, 2) IN StrLen(hex) % 2 = 0 /\ IsHexRegex(hex)

\* a check of the address that leaves out the length
isValidAddressAnyLength(value) ==
    /\ StartsWith0x(value)
    /\ LET hex == Slice(value, 2) IN IsHexRegex(hex)

isValidAddress(value) ==
    /\ StartsWith0x(value)
    /\ LET hex == Slice(value, 2) IN StrLen(hex) = 40 /\ IsHexRegex(hex)

\* lines 237-260: the message of the first format check that fails, "" if none
FormatError(p) ==
    IF ~isValidAddress(p.compact.arbiter) THEN "Invalid arbiter address format"
    ELSE IF ~isValidAddress(p.compact.sponsor) THEN "Invalid sponsor address format"
    ELSE IF ~isValidAddress(p.compact.mandate.tribunal) THEN "Invalid tribunal address format"
    ELSE IF ~isValidAddress(p.compact.mandate.recipient) THEN "Invalid recipient address format"
    ELSE IF ~isValidAddress(p.compact.mandate.token) THEN "Invalid token address format"
    ELSE IF ~isValidHexString(p.sponsorSignature) THEN "Invalid sponsor signature format"
    ELSE IF ~isValidHexString(p.allocatorSignature) THEN "Invalid allocator signature format"
    ELSE ""

\* client/utils deriveClaimHash, its required-field checks: the message of
\* the first one that throws, "" if none (the decimal-string fields are
\* integers here and never empty)
MissingFieldError(compact) ==
    IF compact.mandate.chainId = 0 THEN "Mandate chainId is required"
    ELSE IF compact.mandate.tribunal = <<>> THEN "Mandate tribunal is required"
    ELSE IF compact.mandate.recipient = <<>> THEN "Mandate recipient is required"
    ELSE IF compact.mandate.token = <<>> THEN "Mandate token is required"
    ELSE IF compact.mandate.salt = "" THEN "Mandate salt is required"
    ELSE IF compact.arbiter = <<>> THEN "Compact arbiter is required"
    ELSE IF compact.sponsor = <<>> THEN "Compact sponsor is required"
    ELSE ""

\* client/utils deriveClaimHash, the hash it returns (chainId is not used)
utilsDeriveClaimHash(chainId, compact) ==
    Keccak(<<Keccak(COMPACT_TYPE_STRING), ToLowerCase(compact.arbiter),
             ToLowerCase(compact.sponsor), compact.nonce, compact.expires, compact.id,
             compact.amount,
             Keccak(<<Keccak(MANDATE_TYPE_STRING), compact.mandate.chainId,
                      ToLowerCase(compact.mandate.tribunal),
                      ToLowerCase(compact.mandate.recipient), compact.mandate.expires,
                      ToLowerCase(compact.mandate.token), compact.mandate.minimumAmount,
                      compact.mandate.baselinePriorityFee, compact.mandate.scalingFactor,
                      compact.mandate.salt>>)>>)

\* ------------------------------------------------------------ deriveClaimHash on a received intent

\* An intent as JSON delivers it: a field that was not sent is not in the
\* object's domain, the decimal fields are strings of digits, chainId is a
\* number.
MandateFields ==
    <<"chainId", "tribunal", "recipient", "expires", "token", "minimumAmount",
      "baselinePriorityFee", "scalingFactor", "salt">>

CompactFields == <<"arbiter", "sponsor", "nonce", "expires", "id", "amount">>

AddressFieldsOfMandate == {"tribunal", "recipient", "token"}

AddressFieldsOfCompact == {"arbiter", "sponsor"}

\* !obj[field]: undefined, '' and the number 0 are falsy, '0' is not
Falsy(obj, field) ==
    \/ field \notin DOMAIN obj
    \/ obj[field] = (IF field = "chainId" THEN 0 ELSE <<>>)

\* the first field of the list that fails its check, "" if none does
RECURSIVE FirstFalsy(_, _)
FirstFalsy(obj, fields) ==
    IF fields = <<>> THEN ""
    ELSE IF Falsy(obj, Head(fields)) THEN Head(fields)
    ELSE FirstFalsy(obj, Tail(fields))

\* client/utils deriveClaimHash, its fifteen checks in their order: the
\* Error of the first that throws, NoValue if none does
RequiredFieldError(compact) ==
    IF FirstFalsy(compact.mandate, MandateFields) # ""
    THEN [on |-> "Mandate", field |-> FirstFalsy(compact.mandate, MandateFields),
          message |-> "is required"]
    ELSE IF FirstFalsy(compact, CompactFields) # ""
    THEN [on |-> "Compact", field |-> FirstFalsy(compact, CompactFields),
          message |-> "is required"]
    ELSE NoValue

DigitChars == {"0", "1", "2", "3", "4", "5", "6", "7", "8", "9"}

DigitOf(c) ==
    CASE c = "0" -> 0 [] c = "1" -> 1 [] c = "2" -> 2 [] c = "3" -> 3 [] c = "4" -> 4
      [] c = "5" -> 5 [] c = "6" -> 6 [] c = "7" -> 7 [] c = "8" -> 8 [] c = "9" -> 9

\* the strings of digits: BigInt(s) takes them ('' is 0n) and throws a
\* SyntaxError on any other string of the samples
IsDecimal(s) == \A i \in 1..Len(s) : s[i][1] \in DigitChars

RECURSIVE DecimalValue(_, _)
DecimalValue(s, acc) ==
    IF s = <<>> THEN acc
    ELSE DecimalValue(Slice(s, 1), acc * 10 + DigitOf(CharAt(s, 1)))

\* BigInt(s) of a string of digits
BigInt(s) == DecimalValue(s, 0)

\* encodeAbiParameters takes a bytes32 value of 32 bytes only
IsBytes32(s) == StartsWith0x(s) /\ StrLen(s) = 66 /\ IsHexRegex(Slice(s, 2))

\* the arguments as encodeAbiParameters gets them from BigInt(...)
Encoded(compact) ==
    [arbiter |-> compact.arbiter, sponsor |-> compact.sponsor,
     nonce |-> BigInt(compact.nonce), expires |-> BigInt(compact.expires),
     id |-> BigInt(compact.id), amount |-> BigInt(compact.amount),
     mandate |->
        [chainId |-> compact.mandate.chainId,
         tribunal |-> compact.mandate.tribunal, recipient |-> compact.mandate.recipient,
         expires |-> BigInt(compact.mandate.expires), token |-> compact.mandate.token,
         minimumAmount |-> BigInt(compact.mandate.minimumAmount),
         baselinePriorityFee |-> BigInt(compact.mandate.baselinePriorityFee),
         scalingFactor |-> BigInt(compact.mandate.scalingFactor),
         salt |-> compact.mandate.salt]]

\* what a call of deriveClaimHash yields, and the keccak256 calls it made
Hashed(hash, n) == [threw |-> FALSE, error |-> NoValue, value |-> hash, hashes |-> n]
HashThrew(error, n) == [threw |-> TRUE, error |-> error, value |-> NoValue, hashes |-> n]

EncodingError(name) == [on |-> "encodeAbiParameters", field |-> name, message |-> "invalid"]

\* client/utils deriveClaimHash(chainId, compact)
utilsDeriveClaimHashOf(compact) ==
    LET mandate == compact.mandate
        lower(obj, fields) == [f \in DOMAIN obj |-> IF f \in fields THEN ToLowerCase(obj[f])
                                                    ELSE obj[f]]
    IN  IF RequiredFieldError(compact) # NoValue
        THEN HashThrew(RequiredFieldError(compact), 0)
        ELSE IF \E f \in {"expires", "minimumAmount", "baselinePriorityFee", "scalingFactor"} :
                    ~IsDecimal(mandate[f])
        THEN HashThrew(EncodingError("BigInt"), 2)
        ELSE IF ~MandateEncodable(lower(mandate, AddressFieldsOfMandate))
        THEN HashThrew(EncodingError("address"), 2)
        ELSE IF ~IsBytes32(mandate.salt)
        THEN HashThrew(EncodingError("bytes32"), 2)
        ELSE IF \E f \in {"nonce", "expires", "id", "amount"} : ~IsDecimal(compact[f])
        THEN HashThrew(EncodingError("BigInt"), 3)
        ELSE IF \E f \in AddressFieldsOfCompact : ~isAddress(ToLowerCase(compact[f]))
        THEN HashThrew(EncodingError("address"), 3)
        ELSE Hashed(utilsDeriveClaimHash(mandate.chainId, Encoded(compact)), 4)

\* request.compact.nonce || ''
NonceOrEmpty(compact) ==
    [f \in DOMAIN compact \cup {"nonce"} |-> IF f \in DOMAIN compact THEN compact[f] ELSE <<>>]

\* signature.ts deriveClaimHash(compact.arbiter, compact.sponsor,
\* compact.nonce || '', ..., compact.mandate), as verifyBroadcastRequest calls
\* it: no field is checked, an address goes to encodeAbiParameters as it came
signatureDeriveClaimHashOf(message) ==
    LET mandate == message.mandate
        compact == NonceOrEmpty(message)
        numeral(obj, f) == f \in DOMAIN obj /\ IsDecimal(obj[f])
    IN  IF \/ "chainId" \notin DOMAIN mandate
           \/ ~numeral(mandate, "expires") \/ mandate.expires = <<>>
           \/ \E f \in {"minimumAmount", "baselinePriorityFee", "scalingFactor"} :
                    ~numeral(mandate, f)
        THEN HashThrew(EncodingError("BigInt"), 1)
        ELSE IF \E f \in AddressFieldsOfMandate : f \notin DOMAIN mandate \/ ~isAddress(mandate[f])
        THEN HashThrew(EncodingError("address"), 1)
        ELSE IF "salt" \notin DOMAIN mandate \/ ~IsBytes32(mandate.salt)
        THEN HashThrew(EncodingError("bytes32"), 1)
        ELSE IF \E f \in {"nonce", "expires", "id", "amount"} : ~numeral(compact, f)
        THEN HashThrew(EncodingError("BigInt"), 3)
        ELSE IF \E f \in AddressFieldsOfCompact : f \notin DOMAIN compact \/ ~isAddress(compact[f])
        THEN HashThrew(EncodingError("address"), 3)
        ELSE Hashed(CompactHash(Encoded(compact)), 4)

\* res.status(400).json({success: false, error})
ErrorResponse(message) ==
    [status |-> 400, success |-> FALSE, requestId |-> 0, error |-> message, warning |-> ""]

\* res.json({success: true, requestId, warning?})
SuccessResponse(id, warning) ==
    [status |-> 200, success |-> TRUE, requestId |-> id, error |-> "", warning |-> warning]

BROADCAST_WARNING == "Some connected clients may not have received the broadcast"

\* ------------------------------------------------------------ BroadcastStore

\* a store that keeps the entry it already has under an id
addRequestKeepsFirst(store, req, t) ==
    [id \in DOMAIN store \cup {req.compact.id} |->
        IF id \in DOMAIN store THEN store[id] ELSE [req EXCEPT !.timestamp = t]]

\* a handler that stores the request only once its fan-out is over
addRequestAfterTheFanOut(store, req, t) == store

\* addRequest: keyed by compact.id, stamped with Date.now()
addRequest(store, req, t) ==
    [id \in DOMAIN store \cup {req.compact.id} |->
        IF id = req.compact.id THEN [req EXCEPT !.timestamp = t] ELSE store[id]]

\* a store that drops an entry as soon as it is as old as the horizon
clearOldRequestsFromTheHorizon(store, t) ==
    [id \in {i \in DOMAIN store : ~(t - store[i].timestamp >= MAX_AGE_MS)} |-> store[id]]

\* clearOldRequests(maxAgeMs = 24 h)
clearOldRequests(store, t) ==
    [id \in {i \in DOMAIN store : ~(t - store[i].timestamp > MAX_AGE_MS)} |-> store[id]]

HOUR_IN_SECONDS == 3600

\* a store that calls a request stale from the hour on, not after it
isStaleRequestFromTheHour(req, t) ==
    LET nowSeconds == t \div 1000 IN
    \/ nowSeconds - req.compact.expires >= HOUR_IN_SECONDS
    \/ nowSeconds - req.compact.mandate.expires >= HOUR_IN_SECONDS

\* isStaleRequest at Date.now() = t: the clock is floored to seconds
isStaleRequest(req, t) ==
    LET nowSeconds == t \div 1000 IN
    \/ nowSeconds - req.compact.expires > HOUR_IN_SECONDS
    \/ nowSeconds - req.compact.mandate.expires > HOUR_IN_SECONDS

removeStaleRequests(store, t) ==
    [id \in {i \in DOMAIN store : ~isStaleRequest(store[i], t)} |-> store[id]]

\* a comparator that puts the oldest first
byTimestampAscending(a, b) == a.timestamp <= b.timestamp

\* the comparator (a, b) => b.timestamp - a.timestamp leaves a before b
\* when it is not positive
byTimestampDescending(a, b) == b.timestamp - a.timestamp <= 0

\* The arrays getRequests may return: the values of the store after
\* removeStaleRequests, sorted.  Entries with equal timestamps stay in the
\* insertion order of the Map, which is not kept here: every order of them
\* is allowed.
getRequests(store, t) ==
    LET kept == removeStaleRequests(store, t)
        n == Cardinality(DOMAIN kept)
    IN  {[i \in 1..n |-> kept[ids[i]]] :
            ids \in {f \in [1..n -> DOMAIN kept] :
                        /\ \A i, j \in 1..n : i # j => f[i] # f[j]
                        /\ \A i \in 1..n : \A j \in 1..n :
                              i < j => byTimestampDescending(kept[f[i]], kept[f[j]])}}

\* the store after getRequest(id): a stale entry is deleted
getRequestStore(store, id, t) ==
    IF id \in DOMAIN store /\ isStaleRequest(store[id], t)
    THEN [i \in DOMAIN store \ {id} |-> store[i]]
    ELSE store

\* what getRequest(id) returns: NoValue for undefined
getRequest(store, id, t) ==
    IF id \in DOMAIN store /\ ~isStaleRequest(store[id], t) THEN <<store[id]>> ELSE NoValue

\* one call of a BroadcastStore method, as it is remembered in storeCalls
StoreCall(op, arg, before, after, result, t) ==
    [op |-> op, arg |-> arg, before |-> before, after |-> after, result |-> result,
     at |-> t]

\* broadcastStore.getRequests() is called and returns result
ListRequests(result) ==
    /\ requests' = removeStaleRequests(requests, now)
    /\ storeCalls' = <<StoreCall("getRequests", NoValue, requests,
                                 removeStaleRequests(requests, now), <<result>>, now)>>

\* ------------------------------------------------------------ WebSocketManager and handler steps

ServerInit ==
    /\ now = ClockOrigin
    /\ requests = <<>>
    /\ clients = {}
    /\ readyState = [c \in Conns |-> "NONE"]
    /\ newRequestsSent = [h \in Handlers |-> [c \in Conns |-> 0]]
    /\ pc = [h \in Handlers |-> "idle"]
    /\ payload = [h \in Handlers |-> <<>>]
    /\ work = [h \in Handlers |-> {}]
    /\ storedRequest = [h \in Handlers |-> <<>>]
    /\ response = [h \in Handlers |-> <<>>]
    /\ startTime = [h \in Handlers |-> 0]
    /\ broadcast = [h \in Handlers |-> "none"]
    /\ wait = [h \in Handlers |-> [c \in Conns |-> "none"]]
    /\ sending = [h \in Handlers |-> [c \in Conns |-> "none"]]
    /\ receiptTimer = [h \in Handlers |-> [c \in Conns |-> FALSE]]
    /\ listener = [h \in Handlers |-> [c \in Conns |-> FALSE]]
    /\ successCount = [h \in Handlers |-> 0]
    /\ failCount = [h \in Handlers |-> 0]
    /\ openAtStart = [h \in Handlers |-> {}]
    /\ storeCalls = <<>>
    /\ elapses = 0
    /\ ingests = 0
    /\ isAlive = [c \in Conns |-> FALSE]
    /\ pingInterval = [c \in Conns |-> FALSE]
    /\ wssState = "listening"
    /\ ticks = [c \in Conns |-> 0]
    /\ signalled = [c \in Conns |-> FALSE]
    /\ lastBeat = [c \in Conns |-> NoValue]
    /\ heard = NoValue

\* the verifier is not running
VerifyIdle ==
    /\ request = <<>>
    /\ received = <<>>
    /\ oracle = [throws |-> FALSE, isActive |-> FALSE, expires |-> 0]
    /\ verifyPc = "idle"
    /\ chainPrefix = NoValue
    /\ claimHash = NoValue
    /\ isSponsorValid = FALSE
    /\ isOnchainRegistration = FALSE
    /\ registrationStatus = NoValue
    /\ verifyResult = NoValue
    /\ calls = {}

\* wss.on('connection'): the socket is registered
Connect(c) ==
    /\ wssState = "listening"
    /\ readyState[c] = "NONE"
    /\ IF c = 1 THEN TRUE ELSE readyState[c - 1] # "NONE"
    /\ readyState' = [readyState EXCEPT ![c] = "OPEN"]
    /\ isAlive' = [isAlive EXCEPT ![c] = TRUE]
    /\ pingInterval' = [pingInterval EXCEPT ![c] = TRUE]
    /\ clients' = clients \cup {c}
    /\ UNCHANGED <<wireVars, hashVars, mathVars, verifyVars, clientVars, wssState, ticks, signalled, lastBeat, quotaVars, storeCalls, now, requests, newRequestsSent, pc, payload, work, storedRequest,
                   response, startTime, broadcast, wait, sending, receiptTimer, listener,
                   successCount, failCount, openAtStart>>

\* the closing handshake has begun; 'close' has not been emitted yet
SocketClosing(c) ==
    /\ readyState[c] = "OPEN"
    /\ readyState' = [readyState EXCEPT ![c] = "CLOSING"]
    /\ UNCHANGED <<wireVars, hashVars, mathVars, verifyVars, clientVars, heartVars, quotaVars, storeCalls, now, requests, clients, newRequestsSent, pc, payload, work,
                   storedRequest, response, startTime, broadcast, wait, sending,
                   receiptTimer, listener, successCount, failCount, openAtStart>>

\* ws.on('close'): the socket is deregistered
SocketClosed(c) ==
    /\ readyState[c] \in {"OPEN", "CLOSING"}
    /\ readyState' = [readyState EXCEPT ![c] = "CLOSED"]
    /\ clients' = clients \ {c}
    /\ UNCHANGED <<wireVars, hashVars, mathVars, verifyVars, clientVars, heartVars, quotaVars, storeCalls, now, requests, newRequestsSent, pc, payload, work, storedRequest,
                   response, startTime, broadcast, wait, sending, receiptTimer, listener,
                   successCount, failCount, openAtStart>>

\* app.post('/broadcast'), lines 229-276: validation up to the first await
Receive(h, p) ==
    /\ pc[h] = "idle"
    /\ payload' = [payload EXCEPT ![h] = p]
    /\ IF FormatError(p) # ""
       THEN /\ response' = [response EXCEPT ![h] = <<ErrorResponse(FormatError(p))>>]
            /\ pc' = [pc EXCEPT ![h] = "responded"]
            /\ UNCHANGED work
       ELSE IF p.chainId = ""
       THEN /\ response' = [response EXCEPT ![h] = <<ErrorResponse("Chain ID is required")>>]
            /\ pc' = [pc EXCEPT ![h] = "responded"]
            /\ UNCHANGED work
       ELSE IF MissingFieldError(p.compact) # ""
       THEN /\ response' = [response EXCEPT ![h] = <<ErrorResponse("Failed to derive claim hash")>>]
            /\ pc' = [pc EXCEPT ![h] = "responded"]
            /\ work' = [work EXCEPT ![h] = {"deriveClaimHash"}]
       ELSE /\ pc' = [pc EXCEPT ![h] = "lockDetails"]
            /\ work' = [work EXCEPT ![h] = {"deriveClaimHash", "getLockDetailsWithStatus"}]
            /\ UNCHANGED response
    /\ UNCHANGED <<wireVars, hashVars, mathVars, verifyVars, clientVars, heartVars, quotaVars, storeCalls, now, requests, clients, readyState, newRequestsSent, storedRequest,
                   startTime, broadcast, wait, sending, receiptTimer, listener,
                   successCount, failCount, openAtStart>>

\* a manager that sends to every registered connection, whatever its state
ShouldSendToAll(c) == TRUE

\* line 162: the connections broadcastRequest sends to
ShouldSend(c) == readyState[c] = "OPEN"

AllSettled(w) == \A c \in Conns : w[c] # "pending"

\* What follows, in the same turn of the event loop, once per-client waits
\* have changed to newWait: Promise.all resolves when none is pending, the
\* race of lines 301-307 is won by the broadcast, the handler answers
\* (lines 309-318) and runs clearOldRequests (line 331).
Settle(newWait, newBroadcast, store, curPc, made) ==
    LET resolvedNow(h) == newBroadcast[h] = "pending" /\ AllSettled(newWait[h])
        answeredNow(h) == resolvedNow(h) /\ curPc[h] = "broadcasting"
    IN  /\ wait' = newWait
        /\ broadcast' = [h \in Handlers |->
                            IF resolvedNow(h) THEN "resolved" ELSE newBroadcast[h]]
        /\ pc' = [h \in Handlers |-> IF answeredNow(h) THEN "responded" ELSE curPc[h]]
        /\ response' = [h \in Handlers |->
                            IF answeredNow(h)
                            THEN <<SuccessResponse(payload[h].compact.id, "")>>
                            ELSE response[h]]
        /\ requests' = IF \E h \in Handlers : answeredNow(h)
                       THEN clearOldRequests(store, now) ELSE store
        /\ storeCalls' = IF \E h \in Handlers : answeredNow(h)
                         THEN Append(made, StoreCall("clearOldRequests", NoValue, store,
                                                     clearOldRequests(store, now),
                                                     NoValue, now))
                         ELSE IF made # <<>> THEN made ELSE storeCalls

\* lines 274-307: the lock-details lookup has settled (its failure is only
\* logged); the request is stored and broadcastRequest is called, which
\* runs its map over the clients (part_007 lines 161-205) before returning.
LockDetailsSettled(h) ==
    /\ pc[h] = "lockDetails"
    /\ \/ now + BROADCAST_TIMEOUT_MS <= MaxTime
       \/ {c \in clients : ShouldSend(c)} = {}
    /\ LET stored == [chainId |-> payload[h].chainId,
                      compact |-> payload[h].compact,
                      sponsorSignature |-> payload[h].sponsorSignature,
                      allocatorSignature |-> payload[h].allocatorSignature,
                      timestamp |-> now,
                      claimHash |-> utilsDeriveClaimHash(payload[h].chainId,
                                                         payload[h].compact)]
           targets == {c \in clients : ShouldSend(c)}
       IN  /\ storedRequest' = [storedRequest EXCEPT ![h] = <<stored>>]
           /\ owed' = [s \in Sockets |->
                         IF socket[s] = "OPEN" THEN owed[s] \cup {stored.compact.id}
                         ELSE owed[s]]
           /\ missed' = IF socket[1] # "NONE" /\ \A s \in Sockets : socket[s] # "OPEN"
                        THEN missed \cup {stored.compact.id} ELSE missed
           /\ startTime' = [startTime EXCEPT ![h] = now]
           /\ openAtStart' = [openAtStart EXCEPT
                                ![h] = {c \in clients : readyState[c] = "OPEN"}]
           /\ newRequestsSent' = [newRequestsSent EXCEPT
                                    ![h] = [c \in Conns |->
                                              IF c \in targets THEN @[c] + 1 ELSE @[c]]]
           /\ sending' = [sending EXCEPT
                            ![h] = [c \in Conns |->
                                      IF c \in targets THEN "pending" ELSE "none"]]
           /\ receiptTimer' = [receiptTimer EXCEPT ![h] = [c \in Conns |-> c \in targets]]
           /\ listener' = [listener EXCEPT ![h] = [c \in Conns |-> c \in targets]]
           /\ Settle([wait EXCEPT ![h] = [c \in Conns |->
                                            IF c \in targets THEN "pending"
                                            ELSE IF c \in clients THEN "skipped"
                                            ELSE "none"]],
                     [broadcast EXCEPT ![h] = "pending"],
                     addRequest(requests, stored, now),
                     [pc EXCEPT ![h] = "broadcasting"],
                     <<StoreCall("addRequest", <<stored>>, requests,
                                 addRequest(requests, stored, now), NoValue, now)>>)
    /\ UNCHANGED <<wireVars, hashVars, mathVars, verifyVars, viewerVars, heartVars, quotaVars, now, clients, readyState, payload, work, successCount, failCount>>

\* lines 192-199: the catch of a failed send
SendFailure(h, c) ==
    /\ sending' = [sending EXCEPT ![h][c] = "failed"]
    /\ failCount' = [failCount EXCEPT ![h] = @ + 1]
    /\ receiptTimer' = [receiptTimer EXCEPT ![h][c] = FALSE]
    /\ listener' = [listener EXCEPT ![h][c] = FALSE]
    /\ Settle([wait EXCEPT ![h][c] = IF @ = "pending" THEN "sendFailed" ELSE @],
              broadcast, requests, pc, <<>>)
    /\ UNCHANGED successCount

\* a manager whose completed send also disarms the receipt timer
SendSuccessClearsReceiptTimer(h, c) ==
    /\ sending' = [sending EXCEPT ![h][c] = "sent"]
    /\ successCount' = [successCount EXCEPT ![h] = @ + 1]
    /\ receiptTimer' = [receiptTimer EXCEPT ![h][c] = FALSE]
    /\ UNCHANGED <<failCount, listener, wait, broadcast, pc, response, requests,
                   storeCalls>>

\* lines 188-191: a completed send is counted
SendSuccess(h, c) ==
    /\ sending' = [sending EXCEPT ![h][c] = "sent"]
    /\ successCount' = [successCount EXCEPT ![h] = @ + 1]
    /\ UNCHANGED <<failCount, receiptTimer, listener, wait, broadcast, pc, response,
                   requests, storeCalls>>

\* lines 145-152: the callback of client.send
SendCallback(h, c, error) ==
    /\ sending[h][c] = "pending"
    /\ IF error THEN SendFailure(h, c) ELSE SendSuccess(h, c)
    /\ UNCHANGED <<wireVars, hashVars, mathVars, verifyVars, clientVars, heartVars, quotaVars, now, clients, readyState, newRequestsSent, payload, work,
                   storedRequest, startTime, openAtStart>>

\* lines 140-142: 'Send timeout'
SendTimeout(h, c) ==
    /\ sending[h][c] = "pending"
    /\ now >= startTime[h] + SEND_TIMEOUT_MS
    /\ SendFailure(h, c)
    /\ UNCHANGED <<wireVars, hashVars, mathVars, verifyVars, clientVars, heartVars, quotaVars, now, clients, readyState, newRequestsSent, payload, work,
                   storedRequest, startTime, openAtStart>>

\* lines 165-168: the receipt timer resolves the wait as false
ReceiptTimeout(h, c) ==
    /\ receiptTimer[h][c]
    /\ now >= startTime[h] + RECEIPT_TIMEOUT_MS
    /\ receiptTimer' = [receiptTimer EXCEPT ![h][c] = FALSE]
    /\ Settle([wait EXCEPT ![h][c] = IF @ = "pending" THEN "receiptTimeout" ELSE @],
              broadcast, requests, pc, <<>>)
    /\ UNCHANGED <<wireVars, hashVars, mathVars, verifyVars, clientVars, heartVars, quotaVars, now, clients, readyState, newRequestsSent, payload, work,
                   storedRequest, startTime, sending, listener, successCount, failCount,
                   openAtStart>>

\* messages a viewer may send
Messages ==
    {[type |-> "requestReceived", requestId |-> id] : id \in Ids}
    \cup {[type |-> "pong", requestId |-> 0], [type |-> "ping", requestId |-> 0]}

\* a frame that is not JSON: JSON.parse throws, the catch only logs
NotJson == [type |-> "(not JSON)", requestId |-> 0]

Parses(m) == m # NotJson

\* frames a client may send: the messages, a frame of another type that
\* carries an id, and a frame that does not parse
Frames ==
    Messages \cup {[type |-> "receiptConfirmed", requestId |-> id] : id \in Ids}
        \cup {NotJson}

\* part_007 lines 98-104: the messages that set ws.isAlive
IsLivenessSignal(m) == Parses(m) /\ m.type \in {"ping", "pong"}

\* ws.isAlive = true; the history notes a signal that follows a tick
Alive(c) ==
    /\ isAlive' = [isAlive EXCEPT ![c] = TRUE]
    /\ signalled' = [signalled EXCEPT ![c] = ticks[c] >= 1]
    /\ UNCHANGED <<pingInterval, wssState, ticks, lastBeat>>

\* a messageHandler that takes any requestReceived for its own
AcknowledgesAnyReceipt(h, m) == Parses(m) /\ m.type = "requestReceived"

\* lines 170-182: messageHandler of handler h's broadcast matches the message
Acknowledges(h, m) ==
    Parses(m) /\ m.type = "requestReceived" /\ m.requestId = payload[h].compact.id

\* ws.on('message'): every messageHandler registered on the socket runs
OnMessage(c, m) ==
    /\ readyState[c] = "OPEN"
    /\ IF IsLivenessSignal(m) THEN Alive(c) ELSE UNCHANGED heartVars
    /\ LET hit(h) == listener[h][c] /\ Acknowledges(h, m) IN
       /\ receiptTimer' = [h \in Handlers |->
                             IF hit(h) THEN [receiptTimer[h] EXCEPT ![c] = FALSE]
                             ELSE receiptTimer[h]]
       /\ listener' = [h \in Handlers |->
                         IF hit(h) THEN [listener[h] EXCEPT ![c] = FALSE] ELSE listener[h]]
       /\ Settle([h \in Handlers |->
                    IF hit(h) /\ wait[h][c] = "pending"
                    THEN [wait[h] EXCEPT ![c] = "acked"] ELSE wait[h]],
                 broadcast, requests, pc, <<>>)
    /\ UNCHANGED <<hashVars, mathVars, verifyVars, clientVars, quotaVars, now, clients, readyState, newRequestsSent, payload, work,
                   storedRequest, startTime, sending, successCount, failCount,
                   openAtStart>>

\* a frame arrives on connection c
ClientMessage(c, m) == OnMessage(c, m) /\ UNCHANGED wireVars

\* the same, with the frame noted
ClientMessageHeard(c, m) ==
    /\ OnMessage(c, m)
    /\ heard' = <<c, m>>
    /\ UNCHANGED replied

\* a handler whose catch of 'Broadcast timeout' answers 400
BroadcastTimeoutRejects(h) ==
    /\ pc[h] = "broadcasting"
    /\ now >= startTime[h] + BROADCAST_TIMEOUT_MS
    /\ pc' = [pc EXCEPT ![h] = "responded"]
    /\ response' = [response EXCEPT ![h] = <<ErrorResponse("Broadcast timeout")>>]
    /\ requests' = clearOldRequests(requests, now)
    /\ storeCalls' = <<StoreCall("clearOldRequests", NoValue, requests,
                                 clearOldRequests(requests, now), NoValue, now)>>
    /\ UNCHANGED <<wireVars, hashVars, mathVars, verifyVars, clientVars, heartVars, quotaVars, now, clients, readyState, newRequestsSent, payload, work,
                   storedRequest, startTime, broadcast, wait, sending, receiptTimer,
                   listener, successCount, failCount, openAtStart>>

\* lines 302-304 and 319-331: 'Broadcast timeout' wins the race; the handler
\* still answers success, with a warning, and runs clearOldRequests
BroadcastTimeout(h) ==
    /\ pc[h] = "broadcasting"
    /\ now >= startTime[h] + BROADCAST_TIMEOUT_MS
    /\ pc' = [pc EXCEPT ![h] = "responded"]
    /\ response' = [response EXCEPT
                      ![h] = <<SuccessResponse(payload[h].compact.id, BROADCAST_WARNING)>>]
    /\ requests' = clearOldRequests(requests, now)
    /\ storeCalls' = <<StoreCall("clearOldRequests", NoValue, requests,
                                 clearOldRequests(requests, now), NoValue, now)>>
    /\ UNCHANGED <<wireVars, hashVars, mathVars, verifyVars, clientVars, heartVars, quotaVars, now, clients, readyState, newRequestsSent, payload, work,
                   storedRequest, startTime, broadcast, wait, sending, receiptTimer,
                   listener, successCount, failCount, openAtStart>>

\* the deadlines of the armed timers
Deadlines ==
    {startTime[h] + RECEIPT_TIMEOUT_MS : h \in {x \in Handlers : \E c \in Conns : receiptTimer[x][c]}}
    \cup {startTime[h] + SEND_TIMEOUT_MS :
            h \in {x \in Handlers : \E c \in Conns : sending[x][c] = "pending"}}
    \cup {startTime[h] + BROADCAST_TIMEOUT_MS : h \in {x \in Handlers : pc[x] = "broadcasting"}}

\* time passes; a due timer is not kept waiting longer than the slack
Tick ==
    /\ now + TickMs <= MaxTime
    /\ \A d \in Deadlines : now + TickMs <= d + TimerSlackMs
    /\ now' = now + TickMs
    /\ UNCHANGED <<wireVars, hashVars, mathVars, verifyVars, clientVars, heartVars, quotaVars, storeCalls, requests, clients, readyState, newRequestsSent, pc, payload, work,
                   storedRequest, response, startTime, broadcast, wait, sending,
                   receiptTimer, listener, successCount, failCount, openAtStart>>

\* ws.on('pong'): the viewer answered a protocol-level ping
Pong(c) ==
    /\ readyState[c] = "OPEN"
    /\ Alive(c)
    /\ UNCHANGED <<wireVars, hashVars, mathVars, verifyVars, clientVars, storeVars, serverVars>>

\* ws.terminate(): nothing on a closed socket; otherwise the socket is
\* destroyed and emits 'close' later
Terminated(state) == IF state \in {"OPEN", "CLOSING"} THEN "CLOSING" ELSE state

\* what a tick finds: the first tick of the connection, or whether a
\* liveness signal has arrived since the tick before
BeatKind(c) ==
    IF ticks[c] = 0 THEN "first" ELSE IF signalled[c] THEN "answered" ELSE "quiet"

\* a heartbeat that never gives up on a connection
PingIntervalNeverTerminates(c) ==
    /\ pingInterval[c]
    /\ ticks' = [ticks EXCEPT ![c] = IF @ = 0 THEN 1 ELSE 2]
    /\ signalled' = [signalled EXCEPT ![c] = FALSE]
    /\ isAlive' = [isAlive EXCEPT ![c] = FALSE]
    /\ lastBeat' = [lastBeat EXCEPT ![c] = <<[kind |-> BeatKind(c), did |-> "ping",
                                               readyState |-> readyState[c]]>>]
    /\ UNCHANGED <<pingInterval, readyState, wssState>>
    /\ UNCHANGED <<wireVars, hashVars, mathVars, verifyVars, clientVars, storeVars, now, requests, clients,
                   newRequestsSent, pc, payload, work, storedRequest, response, startTime,
                   broadcast, wait, sending, receiptTimer, listener, successCount,
                   failCount, openAtStart>>

\* part_007 lines 39-49: the callback of the connection's setInterval
PingInterval(c) ==
    /\ pingInterval[c]
    /\ ticks' = [ticks EXCEPT ![c] = IF @ = 0 THEN 1 ELSE 2]
    /\ signalled' = [signalled EXCEPT ![c] = FALSE]
    /\ IF ~isAlive[c]
       THEN /\ pingInterval' = [pingInterval EXCEPT ![c] = FALSE]
            /\ readyState' = [readyState EXCEPT ![c] = Terminated(@)]
            /\ lastBeat' = [lastBeat EXCEPT
                               ![c] = <<[kind |-> BeatKind(c), did |-> "terminate",
                                         readyState |-> readyState[c]]>>]
            /\ UNCHANGED isAlive
       ELSE /\ isAlive' = [isAlive EXCEPT ![c] = FALSE]
            /\ lastBeat' = [lastBeat EXCEPT
                               ![c] = <<[kind |-> BeatKind(c), did |-> "ping",
                                         readyState |-> readyState[c]]>>]
            /\ UNCHANGED <<pingInterval, readyState>>
    /\ UNCHANGED wssState
    /\ UNCHANGED <<wireVars, hashVars, mathVars, verifyVars, clientVars, storeVars, now, requests, clients,
                   newRequestsSent, pc, payload, work, storedRequest, response, startTime,
                   broadcast, wait, sending, receiptTimer, listener, successCount,
                   failCount, openAtStart>>

\* the sockets the WebSocketServer tracks (clientTracking): those not closed
Tracked == {c \in Conns : readyState[c] \in {"OPEN", "CLOSING"}}

\* wss.close() of ws 8: the server stops accepting connections; existing
\* sockets are left alone
WssClose ==
    /\ wssState = "listening"
    /\ wssState' = "closing"
    /\ UNCHANGED <<isAlive, pingInterval, ticks, signalled, lastBeat>>
    /\ UNCHANGED <<wireVars, hashVars, mathVars, verifyVars, clientVars, storeVars, serverVars>>

\* the WebSocketServer emits 'close' once it tracks no socket; the
\* listeners added at line 58, one per connection, clear the intervals
WssCloseEmitted ==
    /\ wssState = "closing"
    /\ Tracked = {}
    /\ wssState' = "closed"
    /\ pingInterval' = [c \in Conns |-> FALSE]
    /\ UNCHANGED <<isAlive, ticks, signalled, lastBeat>>
    /\ UNCHANGED <<wireVars, hashVars, mathVars, verifyVars, clientVars, storeVars, serverVars>>

\* ------------------------------------------------------------ the viewer (part_002)

\* no viewer has been mounted
ViewerIdle ==
    /\ replied = NoValue
    /\ socket = [s \in Sockets |-> "NONE"]
    /\ closure = [s \in Sockets |-> FALSE]
    /\ wsRef = 0
    /\ timers = {}
    /\ reconnectTimeoutRef = NoValue
    /\ reconnectAttemptsRef = 0
    /\ shouldReconnect = TRUE
    /\ isConnected = FALSE
    /\ hookDue = FALSE
    /\ fetchDue = FALSE
    /\ viewRequests = {}
    /\ owed = [s \in Sockets |-> {}]
    /\ drops = 0
    /\ lastWait = NoValue
    /\ opens = 0
    /\ missed = {}

\* App has rendered and its effects have run: connect() has created the
\* first socket and the fetch of the list is on its way
ViewerMounted ==
    /\ replied = NoValue
    /\ socket = [s \in Sockets |-> IF s = 1 THEN "CONNECTING" ELSE "NONE"]
    /\ closure = [s \in Sockets |-> s = 1]
    /\ wsRef = 1
    /\ timers = {}
    /\ reconnectTimeoutRef = NoValue
    /\ reconnectAttemptsRef = 0
    /\ shouldReconnect = TRUE
    /\ isConnected = FALSE
    /\ hookDue = FALSE
    /\ fetchDue = TRUE
    /\ viewRequests = {}
    /\ owed = [s \in Sockets |-> {}]
    /\ drops = 0
    /\ lastWait = NoValue
    /\ opens = 0
    /\ missed = {}

\* getReconnectDelay, for reconnectAttemptsRef.current = attempts
getReconnectDelay(attempts) ==
    IF 1000 * 2 ^ attempts <= maxReconnectDelay THEN 1000 * 2 ^ attempts
    ELSE maxReconnectDelay

FreeSockets == {s \in Sockets : socket[s] = "NONE"}
\* the socket new WebSocket(url) creates
NewSocket == CHOOSE s \in FreeSockets : \A other \in FreeSockets : s <= other

\* connect() of a closure that captured shouldReconnect = may, with
\* wsRef.current = ref before the call and the sockets as in sockets
Connects(may, ref, sockets) ==
    IF may
    THEN /\ FreeSockets # {}
         /\ socket' = [sockets EXCEPT ![NewSocket] = "CONNECTING"]
         /\ closure' = [closure EXCEPT ![NewSocket] = may]
         /\ wsRef' = NewSocket
    ELSE /\ socket' = sockets
         /\ closure' = closure
         /\ wsRef' = ref

\* ws.onopen
SocketOpens(s) ==
    /\ socket[s] = "CONNECTING"
    /\ socket' = [socket EXCEPT ![s] = "OPEN"]
    /\ isConnected' = TRUE
    /\ reconnectAttemptsRef' = 0
    /\ drops' = 0
    /\ opens' = IF opens = 0 THEN 1 ELSE 2
    /\ UNCHANGED <<closure, wsRef, timers, reconnectTimeoutRef, shouldReconnect, hookDue,
                   fetchDue, viewRequests, lastWait, owed, missed>>
    /\ UNCHANGED <<wireVars, hashVars, mathVars, verifyVars, storeVars, heartVars, serverVars>>

\* the timeout a handler of socket s sets
Timeout(s, event, attempts) ==
    [by |-> <<s, event>>, delay |-> getReconnectDelay(attempts), may |-> closure[s]]

\* ws.onclose of socket s (lines 56-78), entered with the given attempts,
\* pending timeouts and reconnectTimeoutRef.current
OnClose(s, attempts, pending, ref) ==
    LET cleared == {t \in pending : ref = NoValue \/ t.by # ref[1]} IN
    /\ isConnected' = FALSE
    /\ drops' = drops + 1
    /\ IF closure[s]
       THEN /\ timers' = cleared \cup {Timeout(s, "close", attempts)}
            /\ reconnectTimeoutRef' = << <<s, "close">> >>
            /\ reconnectAttemptsRef' = attempts + 1
            /\ lastWait' = <<[delay |-> getReconnectDelay(attempts), k |-> drops + 1]>>
       ELSE /\ timers' = cleared
            /\ reconnectTimeoutRef' = NoValue
            /\ reconnectAttemptsRef' = attempts
            /\ UNCHANGED lastWait

\* the connection of an open socket ends without a failure: the browser
\* fires 'close' only
Closed(s) ==
    /\ socket[s] \in {"OPEN", "CLOSING"}
    /\ socket' = [socket EXCEPT ![s] = "CLOSED"]
    /\ OnClose(s, reconnectAttemptsRef, timers, reconnectTimeoutRef)
    /\ UNCHANGED <<closure, wsRef, shouldReconnect, hookDue, fetchDue, viewRequests,
                   opens, owed, missed>>
    /\ UNCHANGED <<wireVars, hashVars, mathVars, verifyVars, storeVars, heartVars, serverVars>>

\* The connection fails (the handshake does not succeed, or an open
\* connection breaks): the browser sets readyState to CLOSED and fires
\* 'error' and then 'close' in one task.  ws.onerror (lines 126-137) finds
\* the socket CLOSED and sets a timeout of its own before ws.onclose runs.
Failed(s) ==
    /\ socket[s] \in {"CONNECTING", "OPEN", "CLOSING", "ABORTING"}
    /\ socket' = [socket EXCEPT ![s] = "CLOSED"]
    /\ OnClose(s, reconnectAttemptsRef + 1,
               timers \cup {Timeout(s, "error", reconnectAttemptsRef)},
               << <<s, "error">> >>)
    /\ UNCHANGED <<closure, wsRef, shouldReconnect, hookDue, fetchDue, viewRequests,
                   opens, owed, missed>>
    /\ UNCHANGED <<wireVars, hashVars, mathVars, verifyVars, storeVars, heartVars, serverVars>>

\* lines 72-76 and 132-135: a reconnect timeout fires
TimerFires(s, event) ==
    \E t \in timers :
        /\ t.by = <<s, event>>
        /\ timers' = timers \ {t}
        /\ Connects(t.may, 0, socket)
    /\ UNCHANGED <<reconnectTimeoutRef, reconnectAttemptsRef, shouldReconnect, isConnected,
                   hookDue, fetchDue, viewRequests, drops, lastWait, opens, owed, missed>>
    /\ UNCHANGED <<wireVars, hashVars, mathVars, verifyVars, storeVars, heartVars, serverVars>>

\* lines 86-89: no message for 35 s, the viewer closes the socket
PingTimeout(s) ==
    /\ socket[s] = "OPEN"
    /\ socket' = [socket EXCEPT ![s] = "CLOSING"]
    /\ UNCHANGED <<closure, wsRef, timers, reconnectTimeoutRef, reconnectAttemptsRef,
                   shouldReconnect, isConnected, hookDue, fetchDue, viewRequests, drops,
                   lastWait, opens, owed, missed>>
    /\ UNCHANGED <<wireVars, hashVars, mathVars, verifyVars, storeVars, heartVars, serverVars>>

\* the newRequest envelope of the request with this id
NewRequestFrame(id) == [type |-> "newRequest", requestId |-> id]

\* the other frames the relay sends, and one that is not JSON
RelayFrames ==
    {[type |-> "ping", requestId |-> 0], [type |-> "pong", requestId |-> 0],
     [type |-> "connected", requestId |-> 0],
     [type |-> "receiptConfirmed", requestId |-> GoodPayload.compact.id], NotJson}

\* a viewer that confirms receipt before it processes the request
onmessageConfirmsFirst(data) ==
    IF ~Parses(data) THEN <<>>
    ELSE IF data.type = "ping" THEN <<[do |-> "send", type |-> "pong", requestId |-> 0]>>
    ELSE IF data.type = "newRequest"
    THEN <<[do |-> "send", type |-> "requestReceived", requestId |-> data.requestId],
           [do |-> "onMessage", type |-> "newRequest", requestId |-> data.requestId]>>
    ELSE <<>>

\* ws.onmessage (lines 100-123), after heartbeat(): the calls it makes, in
\* their order
onmessage(data) ==
    IF ~Parses(data) THEN <<>>
    ELSE IF data.type = "ping" THEN <<[do |-> "send", type |-> "pong", requestId |-> 0]>>
    ELSE IF data.type = "connected" THEN <<>>
    ELSE IF data.type = "newRequest"
    THEN <<[do |-> "onMessage", type |-> "newRequest", requestId |-> data.requestId],
           [do |-> "send", type |-> "requestReceived", requestId |-> data.requestId]>>
    ELSE <<>>

\* the history of one ws.onmessage of socket s
Replied(s, data) == <<[socket |-> s, frame |-> data, did |-> onmessage(data)]>>

\* ws.onmessage with a frame that is not a newRequest
RelayFrame(s, data) ==
    /\ socket[s] = "OPEN"
    /\ replied' = Replied(s, data)
    /\ UNCHANGED <<heard, hashVars, mathVars, verifyVars, storeVars, heartVars, serverVars,
                   clientVars>>

\* ws.onmessage with a newRequest (lines 100-119, 357-365): the request is
\* put in front of the list; generateClientKey increments requestCounter,
\* which gives generateClientKey, handleWebSocketMessage and connect new
\* identities
Deliver(s, id) ==
    /\ socket[s] = "OPEN"
    /\ id \in owed[s]
    /\ replied' = Replied(s, NewRequestFrame(id))
    /\ owed' = [owed EXCEPT ![s] = @ \ {id}]
    /\ viewRequests' = viewRequests \cup {id}
    /\ fetchDue' = TRUE
    /\ hookDue' = TRUE
    /\ UNCHANGED <<socket, closure, wsRef, timers, reconnectTimeoutRef,
                   reconnectAttemptsRef, shouldReconnect, isConnected, drops, lastWait,
                   opens, missed>>
    /\ UNCHANGED <<heard, hashVars, mathVars, verifyVars, storeVars, heartVars, serverVars>>

\* ws.close()
CloseCalled(state) ==
    IF state = "CONNECTING" THEN "ABORTING" ELSE IF state = "OPEN" THEN "CLOSING" ELSE state

\* lines 155-167: the effect of useWebSocket runs again.  The cleanup of
\* the run before sets shouldReconnect to false, clears the timeout of
\* reconnectTimeoutRef and closes the socket of wsRef; then connect() of
\* the render that caused the run is called.  A change of shouldReconnect
\* gives connect a new identity once more.
HookEffect ==
    /\ hookDue
    /\ shouldReconnect' = FALSE
    /\ hookDue' = shouldReconnect
    /\ timers' = {t \in timers :
                    reconnectTimeoutRef = NoValue \/ t.by # reconnectTimeoutRef[1]}
    /\ Connects(shouldReconnect, wsRef,
                IF wsRef = 0 THEN socket ELSE [socket EXCEPT ![wsRef] = CloseCalled(@)])
    /\ UNCHANGED <<reconnectTimeoutRef, reconnectAttemptsRef, isConnected, fetchDue,
                   viewRequests, drops, lastWait, opens, owed, missed>>
    /\ UNCHANGED <<wireVars, hashVars, mathVars, verifyVars, storeVars, heartVars, serverVars>>

\* lines 370-391: the fetch effect.  The list answered by GET
\* /api/broadcasts replaces the requests of App; generateClientKey is
\* called for every entry, so a list that is not empty changes
\* requestCounter and with it the identity of generateClientKey.
FetchRequests ==
    /\ fetchDue
    /\ \E result \in getRequests(requests, now) :
          /\ ListRequests(result)
          /\ viewRequests' = {result[i].compact.id : i \in DOMAIN result}
          /\ fetchDue' = (result # <<>>)
          /\ hookDue' = (hookDue \/ result # <<>>)
    /\ UNCHANGED <<socket, closure, wsRef, timers, reconnectTimeoutRef,
                   reconnectAttemptsRef, shouldReconnect, isConnected, drops, lastWait,
                   opens, owed, missed>>
    /\ UNCHANGED <<wireVars, hashVars, mathVars, verifyVars, heartVars, quotaVars, now, clients, readyState,
                   newRequestsSent, pc, payload, work, storedRequest, response,
                   startTime, broadcast, wait, sending, receiptTimer, listener,
                   successCount, failCount, openAtStart>>

\* the handler of POST /broadcast is entered again, for another request
NextRequest(h) ==
    /\ pc[h] = "responded"
    /\ ingests < MaxIngests
    /\ ingests' = ingests + 1
    /\ pc' = [pc EXCEPT ![h] = "idle"]
    /\ payload' = [payload EXCEPT ![h] = <<>>]
    /\ work' = [work EXCEPT ![h] = {}]
    /\ storedRequest' = [storedRequest EXCEPT ![h] = <<>>]
    /\ response' = [response EXCEPT ![h] = <<>>]
    /\ startTime' = [startTime EXCEPT ![h] = 0]
    /\ broadcast' = [broadcast EXCEPT ![h] = "none"]
    /\ wait' = [wait EXCEPT ![h] = [c \in Conns |-> "none"]]
    /\ sending' = [sending EXCEPT ![h] = [c \in Conns |-> "none"]]
    /\ successCount' = [successCount EXCEPT ![h] = 0]
    /\ failCount' = [failCount EXCEPT ![h] = 0]
    /\ openAtStart' = [openAtStart EXCEPT ![h] = {}]
    /\ newRequestsSent' = [newRequestsSent EXCEPT ![h] = [c \in Conns |-> 0]]
    /\ UNCHANGED <<wireVars, hashVars, mathVars, verifyVars, clientVars, heartVars, storeCalls, elapses, now, requests, clients,
                   readyState, receiptTimer, listener>>

\* app.get('/api/broadcasts')
GetBroadcasts ==
    \E result \in getRequests(requests, now) :
        /\ ListRequests(result)
        /\ UNCHANGED <<wireVars, hashVars, mathVars, verifyVars, clientVars, heartVars, quotaVars, now, clients, readyState,
                       newRequestsSent, pc, payload, work, storedRequest, response,
                       startTime, broadcast, wait, sending, receiptTimer, listener,
                       successCount, failCount, openAtStart>>

\* app.get('/api/broadcasts/:id'): the entry, or 404 when getRequest gives undefined
GetBroadcast(id) ==
    /\ requests' = getRequestStore(requests, id, now)
    /\ storeCalls' = <<StoreCall("getRequest", <<id>>, requests,
                                 getRequestStore(requests, id, now),
                                 getRequest(requests, id, now), now)>>
    /\ UNCHANGED <<wireVars, hashVars, mathVars, verifyVars, clientVars, heartVars, quotaVars, now, clients, readyState,
                   newRequestsSent, pc, payload, work, storedRequest, response,
                   startTime, broadcast, wait, sending, receiptTimer, listener,
                   successCount, failCount, openAtStart>>

\* an expiry one day after the clock origin, in seconds
FarExpiry == (ClockOrigin + MAX_AGE_MS) \div 1000

\* a sample intent with its own mandate expiry
StorePayload(id, compactExpires, mandateExpires) ==
    LET compact == [SampleCompact(id, compactExpires) EXCEPT
                       !.mandate.expires = mandateExpires] IN
    [chainId |-> SampleChainId, compact |-> compact,
     sponsorSignature |-> Sign("sponsor", ChainPrefixOf(SampleChainId), CompactHash(compact)),
     allocatorSignature |-> Sign("allocator", ChainPrefixOf(SampleChainId),
                                 CompactHash(compact)),
     claimHash |-> NoValue]

\* the bodies posted to a server whose store is followed over days
StorePayloads ==
    {GoodPayload,
     SignedPayload(1, 7000, "sponsor", "allocator"),    \* the compact expires first
     StorePayload(2, 9000, 7000),                       \* the mandate expires first
     StorePayload(2, FarExpiry, FarExpiry)}

\* the jumps of the clock, in ms: a second, up to the hour after the
\* earlier sample expiry, and the horizon of clearOldRequests
StoreSteps ==
    {1000, (7000 + HOUR_IN_SECONDS) * 1000 - ClockOrigin, MAX_AGE_MS}

\* time passes while no broadcast is waiting
Elapse(d) ==
    /\ elapses < MaxElapses
    /\ Deadlines = {}
    /\ elapses' = elapses + 1
    /\ now' = now + d
    /\ UNCHANGED <<wireVars, hashVars, mathVars, verifyVars, clientVars, heartVars, storeCalls, ingests, requests, clients, readyState,
                   newRequestsSent, pc, payload, work, storedRequest, response,
                   startTime, broadcast, wait, sending, receiptTimer, listener,
                   successCount, failCount, openAtStart>>

Init == ServerInit /\ VerifyIdle /\ MathIdle /\ ViewerIdle /\ HashIdle

\* the server: ingestion of any sample body, connections coming and going
Next ==
    \/ Tick
    \/ \E c \in Conns : Connect(c)
    \/ \E c \in Conns : SocketClosing(c)
    \/ \E c \in Conns : SocketClosed(c)
    \/ \E h \in OneAtATime, p \in Payloads : Receive(h, p)
    \/ \E h \in OneAtATime : LockDetailsSettled(h)
    \/ \E h \in OneAtATime : BroadcastTimeout(h)
    \/ \E h \in OneAtATime, c \in Conns, error \in BOOLEAN : SendCallback(h, c, error)
    \/ \E h \in OneAtATime, c \in Conns : SendTimeout(h, c)
    \/ \E h \in OneAtATime, c \in Conns : ReceiptTimeout(h, c)
    \/ \E c \in Conns, m \in Messages : ClientMessage(c, m)

Spec == Init /\ [][Next]_vars

\* The event loop runs a timer callback that is due, and time passes.
LiveSpec ==
    /\ Spec
    /\ WF_vars(Tick)
    /\ \A h \in Handlers, c \in Conns : WF_vars(ReceiptTimeout(h, c))

\* the store of a server without viewers, over days: requests are posted
\* one after the other and the two GET endpoints are called
StoreNext ==
    \/ \E d \in StoreSteps : Elapse(d)
    \/ \E h \in OneAtATime, p \in StorePayloads : Receive(h, p)
    \/ \E h \in OneAtATime : LockDetailsSettled(h)
    \/ \E h \in OneAtATime : NextRequest(h)
    \/ GetBroadcasts
    \/ \E id \in Ids : GetBroadcast(id)

StoreSpec == Init /\ [][StoreNext]_vars

\* connections and their heartbeats, and the shutdown of the socket server
HeartbeatNext ==
    \/ \E c \in Conns : Connect(c)
    \/ \E c \in Conns : SocketClosing(c)
    \/ \E c \in Conns : SocketClosed(c)
    \/ \E c \in Conns : PingInterval(c)
    \/ \E c \in Conns : Pong(c)
    \/ \E c \in Conns, m \in Messages : ClientMessage(c, m)
    \/ WssClose
    \/ WssCloseEmitted

\* An armed interval fires again and again; a socket that is closing (a
\* destroyed one, or one whose closing handshake ws bounds by a timeout)
\* emits 'close'; the server's 'close' is emitted on the next tick of the
\* event loop once it is due.
HeartbeatSpec ==
    /\ Init /\ [][HeartbeatNext]_vars
    /\ \A c \in Conns : WF_vars(PingInterval(c))
    /\ \A c \in Conns : WF_vars(readyState[c] = "CLOSING" /\ SocketClosed(c))
    /\ WF_vars(WssCloseEmitted)

\* the body posted while a viewer is followed
ViewerPayloads == {GoodPayload}

\* The viewer, the store and the requests relayed to the viewer.  The
\* viewer is followed on its own end of its connections; of the fan-out
\* only the envelopes handed to its open socket are kept (owed).
ViewerNext ==
    \/ \E s \in Sockets : SocketOpens(s)
    \/ \E s \in Sockets : Closed(s)
    \/ \E s \in Sockets : Failed(s)
    \/ \E s \in Sockets, event \in {"error", "close"} : TimerFires(s, event)
    \/ \E s \in Sockets : PingTimeout(s)
    \/ \E s \in Sockets, id \in Ids : Deliver(s, id)
    \/ HookEffect
    \/ FetchRequests
    \/ \E h \in OneAtATime, p \in ViewerPayloads : Receive(h, p)
    \/ \E h \in OneAtATime : LockDetailsSettled(h)

\* the relay with one sample body, every frame a client may send noted
AckNext ==
    \/ Tick
    \/ \E c \in Conns : Connect(c)
    \/ \E c \in Conns : SocketClosing(c)
    \/ \E c \in Conns : SocketClosed(c)
    \/ \E h \in OneAtATime, p \in ViewerPayloads : Receive(h, p)
    \/ \E h \in OneAtATime : LockDetailsSettled(h)
    \/ \E h \in OneAtATime : BroadcastTimeout(h)
    \/ \E h \in OneAtATime, c \in Conns, error \in BOOLEAN : SendCallback(h, c, error)
    \/ \E h \in OneAtATime, c \in Conns : SendTimeout(h, c)
    \/ \E h \in OneAtATime, c \in Conns : ReceiptTimeout(h, c)
    \/ \E c \in Conns, m \in Frames : ClientMessageHeard(c, m)

AckSpec == Init /\ [][AckNext]_vars

\* the connection of a relay with a single viewer
OneViewer == {1}

\* the relay with one viewer and one sample body posted twice, the second
\* POST arriving while the first awaits its broadcast
OverlapNext ==
    \/ Tick
    \/ \E c \in OneViewer : Connect(c)
    \/ \E h \in Handlers, p \in ViewerPayloads : Receive(h, p)
    \/ \E h \in Handlers : LockDetailsSettled(h)
    \/ \E h \in Handlers : BroadcastTimeout(h)
    \/ \E h \in Handlers, c \in Conns, error \in BOOLEAN : SendCallback(h, c, error)
    \/ \E h \in Handlers, c \in Conns : SendTimeout(h, c)
    \/ \E h \in Handlers, c \in Conns : ReceiptTimeout(h, c)
    \/ \E c \in Conns, m \in Messages : ClientMessage(c, m)

OverlapSpec == Init /\ [][OverlapNext]_vars

\* a server that has started and a viewer that has been mounted
ViewerCall == ViewerMounted /\ ServerInit /\ VerifyIdle /\ MathIdle /\ HashIdle

\* A timeout that is pending fires, an effect that is due runs, the fetch
\* is answered, and an envelope on its way to an open socket arrives.
ViewerSpec ==
    /\ ViewerCall /\ [][ViewerNext]_vars
    /\ \A s \in Sockets, event \in {"error", "close"} : WF_vars(TimerFires(s, event))
    /\ WF_vars(HookEffect)
    /\ WF_vars(FetchRequests)
    /\ \A s \in Sockets, id \in Ids : WF_vars(Deliver(s, id))

\* the viewer with every frame the relay may send it
ReplyNext ==
    \/ \E s \in Sockets : SocketOpens(s)
    \/ \E s \in Sockets : Closed(s)
    \/ \E s \in Sockets : Failed(s)
    \/ \E s \in Sockets, event \in {"error", "close"} : TimerFires(s, event)
    \/ \E s \in Sockets : PingTimeout(s)
    \/ \E s \in Sockets, id \in Ids : Deliver(s, id)
    \/ \E s \in Sockets, data \in RelayFrames : RelayFrame(s, data)
    \/ HookEffect
    \/ FetchRequests
    \/ \E h \in OneAtATime, p \in ViewerPayloads : Receive(h, p)
    \/ \E h \in OneAtATime : LockDetailsSettled(h)

ReplySpec == ViewerCall /\ [][ReplyNext]_vars

\* the verifier alone, on every sample request
VerifyNext ==
    \/ VerifyStart
    \/ VerifySponsor
    \/ CheckRegistration
    \/ VerifyAllocator

\* a server that has started, and a call of verifyBroadcastRequest
VerifyCall == VerifyInit /\ ServerInit /\ MathIdle /\ ViewerIdle /\ HashIdle

VerifySpec == VerifyCall /\ [][VerifyNext]_vars

\* the arguments of a first call: amounts are unsigned
MathInputs ==
    [fn : {"deriveSettlementAmount", "derivePriorityFee"},
     amount : 0..MaxAmount,
     minimumAmount : 0..MaxMinimum,
     baselinePriorityFee : 0..MaxBaseline,
     scalingFactor : ScalingFactors]

MathInit ==
    /\ mathPc = "calls"
    /\ mathArgs \in MathInputs
    /\ chain = <<>>

\* the function the next call is of
NextFunction ==
    IF Len(chain) % 2 = 0 THEN mathArgs.fn
    ELSE IF mathArgs.fn = "deriveSettlementAmount" THEN "derivePriorityFee"
    ELSE "deriveSettlementAmount"

\* the first argument of the next call
NextAmount == IF chain = <<>> THEN mathArgs.amount ELSE chain[Len(chain)].value

\* another call can be made: the one before returned
CanCall ==
    /\ mathPc = "calls"
    /\ Len(chain) < MaxCalls
    /\ IF chain = <<>> THEN TRUE ELSE ~chain[Len(chain)].threw

\* settlement = deriveSettlementAmount(priorityFee, ...)
CallDeriveSettlementAmount ==
    /\ CanCall
    /\ NextFunction = "deriveSettlementAmount"
    /\ chain' = Append(chain, deriveSettlementAmount(NextAmount, mathArgs.minimumAmount,
                                                     mathArgs.baselinePriorityFee,
                                                     mathArgs.scalingFactor))
    /\ UNCHANGED <<wireVars, hashVars, serverVars, verifyVars, storeVars, heartVars, clientVars,
                   mathPc, mathArgs>>

\* priorityFee = derivePriorityFee(desiredSettlement, ...)
CallDerivePriorityFee ==
    /\ CanCall
    /\ NextFunction = "derivePriorityFee"
    /\ chain' = Append(chain, derivePriorityFee(NextAmount, mathArgs.minimumAmount,
                                                mathArgs.baselinePriorityFee,
                                                mathArgs.scalingFactor))
    /\ UNCHANGED <<wireVars, hashVars, serverVars, verifyVars, storeVars, heartVars, clientVars,
                   mathPc, mathArgs>>

\* a server that has started, and calls of the two functions
MathCall == MathInit /\ ServerInit /\ VerifyIdle /\ ViewerIdle /\ HashIdle

MathNext == CallDeriveSettlementAmount \/ CallDerivePriorityFee

\* the settlement arithmetic alone, on every sample of arguments
MathSpec == MathCall /\ [][MathNext]_vars

\* ------------------------------------------------------------ the intents hashed

UpperOf(c) ==
    CASE c = "a" -> "A" [] c = "b" -> "B" [] c = "c" -> "C"
      [] c = "d" -> "D" [] c = "e" -> "E" [] c = "f" -> "F"
      [] OTHER -> c

\* the address with its hex digits in upper case ('0x' stays)
RECURSIVE UpperDigits(_)
UpperDigits(s) ==
    IF s = <<>> THEN <<>>
    ELSE Concat(<< <<UpperOf(s[1][1]), s[1][2]>> >>, UpperDigits(Tail(s)))

UpperCaseAddress(a) == Hex0x(UpperDigits(Slice(a, 2)))

\* the sample intent, every address in lower case
HashIntent ==
    [arbiter |-> ToLowerCase(ALLOCATOR_ADDRESS), sponsor |-> SPONSOR_ADDRESS,
     nonce |-> Lit(<<"1">>), expires |-> Lit(<<"7">>), id |-> Lit(<<"3">>),
     amount |-> Lit(<<"1", "0">>),
     mandate |->
        [chainId |-> 10, tribunal |-> Hex0x(Rep("b", 40)), recipient |-> Hex0x(Rep("c", 40)),
         expires |-> Lit(<<"9">>), token |-> Hex0x(Rep("f", 40)),
         minimumAmount |-> Lit(<<"5">>), baselinePriorityFee |-> Lit(<<"1">>),
         scalingFactor |-> Lit(<<"2">>),
         salt |-> Hex0x(Concat(Rep("0", 63), Rep("1", 1)))]]

\* the fifteen fields: <<"Compact", name>> or <<"Mandate", name>>
FieldsOfIntent ==
    {<<"Compact", CompactFields[i]>> : i \in 1..Len(CompactFields)}
        \cup {<<"Mandate", MandateFields[i]>> : i \in 1..Len(MandateFields)}

AddressFields ==
    {<<"Compact", f>> : f \in AddressFieldsOfCompact}
        \cup {<<"Mandate", f>> : f \in AddressFieldsOfMandate}

\* the object of the intent a field is on, and its value there
ObjectOf(compact, field) == IF field[1] = "Mandate" THEN compact.mandate ELSE compact

Sent(compact, field) == field[2] \in DOMAIN ObjectOf(compact, field)

ValueOf(compact, field) == ObjectOf(compact, field)[field[2]]

\* the intent with one field set, or not sent at all
With(compact, field, v) ==
    IF field[1] = "Mandate"
    THEN [compact EXCEPT !.mandate = [f \in DOMAIN compact.mandate \cup {field[2]} |->
                                        IF f = field[2] THEN v ELSE compact.mandate[f]]]
    ELSE [f \in DOMAIN compact \cup {field[2]} |-> IF f = field[2] THEN v ELSE compact[f]]

Without(compact, field) ==
    IF field[1] = "Mandate"
    THEN [compact EXCEPT !.mandate = [f \in DOMAIN compact.mandate \ {field[2]} |->
                                        compact.mandate[f]]]
    ELSE [f \in DOMAIN compact \ {field[2]} |-> compact[f]]

\* zero, as a value of the field's type
ZeroOf(field) ==
    IF field[2] = "chainId" THEN 0
    ELSE IF field \in AddressFields THEN Hex0x(Rep("0", 40))
    ELSE IF field[2] = "salt" THEN Hex0x(Rep("0", 64))
    ELSE Lit(<<"0">>)

\* the empty value of the field's type
EmptyOf(field) == IF field[2] = "chainId" THEN 0 ELSE <<>>

\* a value of the field's type that the sample intent has nowhere
OtherOf(field) ==
    IF field[2] = "chainId" THEN 1
    ELSE IF field \in AddressFields THEN Hex0x(Rep("9", 40))
    ELSE IF field[2] = "salt" THEN Hex0x(Concat(Rep("0", 63), Rep("2", 1)))
    ELSE Lit(<<"4">>)

\* the sample intent with the addresses of some fields in upper case
RECURSIVE InUpperCase(_, _)
InUpperCase(compact, fields) ==
    IF fields = {} THEN compact
    ELSE LET f == CHOOSE x \in fields : TRUE
         IN  InUpperCase(With(compact, f, UpperCaseAddress(ValueOf(compact, f))),
                         fields \ {f})

HashIntents ==
    {InUpperCase(HashIntent, fields) : fields \in SUBSET AddressFields}
        \cup {With(HashIntent, <<"Compact", "arbiter">>, ALLOCATOR_ADDRESS),
              With(HashIntent, <<"Compact", "amount">>, Lit(<<"0", "1", "0">>))}
        \cup {Without(HashIntent, f) : f \in FieldsOfIntent}
        \cup {With(HashIntent, f, EmptyOf(f)) : f \in FieldsOfIntent}
        \cup {With(HashIntent, f, ZeroOf(f)) : f \in FieldsOfIntent}
        \cup {With(HashIntent, f, OtherOf(f)) : f \in FieldsOfIntent}

Implementations == {"utils", "signature"}

HashCalls == Implementations \X {1, 2}

\* two intents to hash: the sample in lower or in upper case, and any sample
HashInit ==
    /\ hashPc = "calls"
    /\ hashArgs \in {HashIntent, InUpperCase(HashIntent, AddressFields)} \X HashIntents
    /\ hashOut = [c \in HashCalls |-> NoValue]

\* POST /broadcast: claimHash = deriveClaimHash(Number(payload.chainId), payload.compact)
UtilsDeriveClaimHash(i) ==
    /\ hashPc = "calls"
    /\ hashOut[<<"utils", i>>] = NoValue
    /\ hashOut' = [hashOut EXCEPT ![<<"utils", i>>] = utilsDeriveClaimHashOf(hashArgs[i])]
    /\ UNCHANGED <<wireVars, serverVars, verifyVars, mathVars, storeVars, heartVars,
                   clientVars, hashPc, hashArgs>>

\* verifyBroadcastRequest: request.claimHash || deriveClaimHash(request.compact.arbiter, ...)
SignatureDeriveClaimHash(i) ==
    /\ hashPc = "calls"
    /\ hashOut[<<"signature", i>>] = NoValue
    /\ hashOut' = [hashOut EXCEPT ![<<"signature", i>>] = signatureDeriveClaimHashOf(hashArgs[i])]
    /\ UNCHANGED <<wireVars, serverVars, verifyVars, mathVars, storeVars, heartVars,
                   clientVars, hashPc, hashArgs>>

\* a server that has started, and calls of the two deriveClaimHash
HashCall == HashInit /\ ServerInit /\ VerifyIdle /\ MathIdle /\ ViewerIdle

HashNext ==
    \/ \E i \in {1, 2} : UtilsDeriveClaimHash(i)
    \/ \E i \in {1, 2} : SignatureDeriveClaimHash(i)

\* the two hash functions alone, on every pair of sample intents
HashSpec == HashCall /\ [][HashNext]_vars

\* ------------------------------------------------------------ claims on verify

\* the claim hash verify works with: the caller's, or else the derived one
ReceivedClaimHash ==
    IF received.claimHash # NoValue THEN received.claimHash
    ELSE CompactHash(received.compact)

\* the prefix of the received request's chain (supported chains only)
ReceivedPrefix ==
    CASE received.chainId = "1"    -> CHAIN_PREFIXES.ethereum
      [] received.chainId = "10"   -> CHAIN_PREFIXES.optimism
      [] received.chainId = "8453" -> CHAIN_PREFIXES.base
      [] received.chainId = "130"  -> CHAIN_PREFIXES.unichain

\* the received sponsor signature recovers to compact.sponsor
SponsorRecovers ==
    verifySignature(ReceivedClaimHash, received.sponsorSignature,
                    received.compact.sponsor, ReceivedPrefix)

\* the received allocator signature recovers to the configured allocator
AllocatorRecovers ==
    verifySignature(ReceivedClaimHash, received.allocatorSignature,
                    ALLOCATOR_ADDRESS, ReceivedPrefix)

\* the oracle answers, and reports the registration active
RegistrationReportedActive == ~oracle.throws /\ oracle.isActive

\* C7: on a supported chain verify returns isValid = true exactly when (the
\* sponsor signature recovers to compact.sponsor or the oracle reports the
\* registration active) and the allocator signature recovers to the
\* configured allocator, both over keccak256(chainPrefix || claimHash).
C7_ValidIffSponsorAndAllocator ==
    verifyPc = "returned" =>
        verifyResult.isValid =
            ((SponsorRecovers \/ RegistrationReportedActive) /\ AllocatorRecovers)

\* verify returned isValid = true on the signature path
C7_Witness ==
    /\ verifyPc = "returned"
    /\ verifyResult.isValid
    /\ ~verifyResult.isOnchainRegistration
    /\ SponsorRecovers /\ AllocatorRecovers

\* C8: sponsor signature invalid, registration reported active, allocator
\* signature valid: verify yields isValid = true, isOnchainRegistration =
\* true, and the request's sponsorSignature is '0x' and 64 zero bytes.
C8_RegistrationFallback ==
    (/\ verifyPc = "returned"
     /\ ~SponsorRecovers /\ RegistrationReportedActive /\ AllocatorRecovers)
    => /\ verifyResult = [isValid |-> TRUE, isOnchainRegistration |-> TRUE]
       /\ request.sponsorSignature = << <<"0", 1>>, <<"x", 1>>, <<"0", 128>> >>

\* verify returned through the registration fallback
C8_Witness ==
    /\ verifyPc = "returned"
    /\ ~SponsorRecovers /\ RegistrationReportedActive /\ AllocatorRecovers
    /\ verifyResult.isOnchainRegistration
    /\ received.sponsorSignature # request.sponsorSignature

\* C9: sponsor signature invalid and registration not active: verify
\* returns isValid = false, isOnchainRegistration = false, and the allocator
\* signature is never examined.
C9_NoSponsorNoAllocatorCheck ==
    (/\ verifyPc = "returned"
     /\ ~SponsorRecovers /\ ~RegistrationReportedActive)
    => /\ verifyResult = [isValid |-> FALSE, isOnchainRegistration |-> FALSE]
       /\ "allocatorSignature" \notin calls

\* verify returned after an answered lookup that found no active registration,
\* for a request whose allocator signature is good
C9_Witness ==
    /\ verifyPc = "returned"
    /\ ~SponsorRecovers /\ ~oracle.throws /\ ~oracle.isActive
    /\ "getRegistrationStatus" \in calls
    /\ AllocatorRecovers

\* C10: when the registration lookup throws, verify neither throws nor
\* stalls: it returns isValid = false and leaves the request as received.
C10_OracleFailureIsInactive ==
    (oracle.throws /\ "getRegistrationStatus" \in calls)
    => /\ verifyPc = "returned"
       /\ verifyResult.isValid = FALSE
       /\ request = received

\* the lookup was made and threw
C10_Witness ==
    /\ oracle.throws
    /\ "getRegistrationStatus" \in calls
    /\ verifyPc = "returned"

\* C11: sponsor and allocator signatures both good over the claim hash:
\* isValid = true, isOnchainRegistration = false, and the registration
\* oracle is not queried; it is queried only after the sponsor check failed.
C11_SignedPairNeedsNoOracle ==
    /\ (verifyPc = "returned" /\ SponsorRecovers /\ AllocatorRecovers)
       => /\ verifyResult = [isValid |-> TRUE, isOnchainRegistration |-> FALSE]
          /\ "getRegistrationStatus" \notin calls
    /\ "getRegistrationStatus" \in calls
       => ("sponsorSignature" \in calls /\ ~SponsorRecovers)

\* verify returned valid on the signatures, for a request whose registration
\* the oracle would have reported active
C11_Witness ==
    /\ verifyPc = "returned"
    /\ SponsorRecovers /\ AllocatorRecovers
    /\ oracle.isActive
    /\ verifyResult = [isValid |-> TRUE, isOnchainRegistration |-> FALSE]
    /\ "getRegistrationStatus" \notin calls

\* the smaller of two numbers
Min(a, b) == IF a <= b THEN a ELSE b

\* C12: when the registration fallback applies, compact.expires after
\* verify is min(compact.expires before, registration expiry): never
\* increased, unchanged when the registration expiry is not smaller.
C12_ExpiresClamped ==
    isOnchainRegistration =>
        /\ request.compact.expires = Min(received.compact.expires, oracle.expires)
        /\ request.compact.expires <= received.compact.expires
        /\ oracle.expires >= received.compact.expires
           => request.compact.expires = received.compact.expires

\* the fallback lowered compact.expires to the registration's expiry
C12_Witness ==
    /\ verifyPc = "returned"
    /\ isOnchainRegistration
    /\ request.compact.expires < received.compact.expires
    /\ request.compact.expires = oracle.expires

\* C13: on a chainId outside {1, 10, 8453, 130} verify throws before any
\* claim hash is derived, any signature recovered or the oracle queried,
\* and the request is left as received.
C13_UnsupportedChainThrowsFirst ==
    (received.chainId \notin {"1", "10", "8453", "130"} /\ verifyPc # "start")
    => /\ verifyPc = "threw"
       /\ calls = {}
       /\ claimHash = NoValue
       /\ verifyResult = NoValue
       /\ request = received

\* verify threw on a request for chain 999 that carries no claim hash
C13_Witness ==
    /\ verifyPc = "threw"
    /\ received.chainId = "999"
    /\ received.claimHash = NoValue
    /\ calls = {}

\* ------------------------------------------------------------ claims on the arithmetic

\* the first call was of fn, and has ended
FirstCallWas(fn) == mathPc = "calls" /\ mathArgs.fn = fn /\ Len(chain) >= 1

\* C14: exact-in (scalingFactor > WAD, minimumAmount > 0), target
\* S >= minimumAmount: the settlement at the fee derivePriorityFee
\* returns for S is at least S.
C14_InverseMeetsTarget ==
    (/\ FirstCallWas("derivePriorityFee") /\ Len(chain) >= 2
     /\ mathArgs.scalingFactor > WAD /\ mathArgs.minimumAmount > 0
     /\ mathArgs.amount >= mathArgs.minimumAmount)
    => (~chain[2].threw /\ chain[2].value >= mathArgs.amount)

\* C15: exact-in, priorityFee p above the baseline, S the settlement at p:
\* the settlement at derivePriorityFee(S) is S again, exactly.
C15_RoundTripExact ==
    (/\ FirstCallWas("deriveSettlementAmount") /\ Len(chain) = 3
     /\ mathArgs.scalingFactor > WAD /\ mathArgs.minimumAmount > 0
     /\ mathArgs.amount > mathArgs.baselinePriorityFee)
    => (~chain[3].threw /\ chain[3].value = chain[1].value)

\* a round trip that came back to a settlement the division had rounded up,
\* from a fee with a baseline in it
C15_Witness ==
    /\ FirstCallWas("deriveSettlementAmount") /\ Len(chain) = 3
    /\ mathArgs.scalingFactor > WAD /\ mathArgs.minimumAmount > 0
    /\ mathArgs.amount > mathArgs.baselinePriorityFee
    /\ mathArgs.baselinePriorityFee > 0
    /\ chain[3].value = chain[1].value
    /\ chain[1].value * WAD >
          mathArgs.minimumAmount
            * (WAD + (mathArgs.scalingFactor - WAD)
                       * (mathArgs.amount - mathArgs.baselinePriorityFee))

\* C16: for scalingFactor > WAD and the other parameters fixed,
\* deriveSettlementAmount is non-decreasing in priorityFee.
C16_SettlementMonotone ==
    (FirstCallWas("deriveSettlementAmount") /\ mathArgs.scalingFactor > WAD)
    => \A p2 \in 0..MaxAmount :
           mathArgs.amount <= p2
           => LET other == deriveSettlementAmount(p2, mathArgs.minimumAmount,
                                                  mathArgs.baselinePriorityFee,
                                                  mathArgs.scalingFactor)
              IN  ~chain[1].threw /\ ~other.threw /\ chain[1].value <= other.value

\* a settlement above the minimum was derived at a fee that is not the largest
C16_Witness ==
    /\ FirstCallWas("deriveSettlementAmount") /\ mathArgs.scalingFactor > WAD
    /\ mathArgs.amount < MaxAmount
    /\ chain[1].value > mathArgs.minimumAmount

\* a divided by b and rounded up, for a >= 0 and b > 0
CeilDiv(a, b) == IF a % b = 0 THEN a \div b ELSE a \div b + 1

\* C17: for scalingFactor > WAD and priorityFee > baselinePriorityFee the
\* settlement is ceilDiv(minimumAmount * (WAD + (scalingFactor - WAD) *
\* (priorityFee - baselinePriorityFee)), WAD): one division, after all
\* the multiplication.
C17_ExactInFormula ==
    (/\ FirstCallWas("deriveSettlementAmount")
     /\ mathArgs.scalingFactor > WAD
     /\ mathArgs.amount > mathArgs.baselinePriorityFee)
    => /\ ~chain[1].threw
       /\ chain[1].value =
             CeilDiv(mathArgs.minimumAmount
                       * (WAD + (mathArgs.scalingFactor - WAD)
                                  * (mathArgs.amount - mathArgs.baselinePriorityFee)),
                     WAD)

\* minimum 0.95 units, scaling factor 1.5 units, 2 above the baseline:
\* the settlement is 1.9 units
C17_Witness ==
    /\ FirstCallWas("deriveSettlementAmount")
    /\ mathArgs.minimumAmount * 20 = 19 * WAD
    /\ mathArgs.scalingFactor * 2 = 3 * WAD
    /\ mathArgs.amount = mathArgs.baselinePriorityFee + 2
    /\ chain[1].value * 10 = 19 * WAD

\* C18: deriveSettlementAmount returns minimumAmount whenever priorityFee
\* <= baselinePriorityFee (any scalingFactor) or scalingFactor = WAD (any
\* priorityFee).
C18_MinimumUnchanged ==
    (/\ FirstCallWas("deriveSettlementAmount")
     /\ \/ mathArgs.amount <= mathArgs.baselinePriorityFee
        \/ mathArgs.scalingFactor = WAD)
    => chain[1] = Returned(mathArgs.minimumAmount)

\* the minimum came back for a fee above the baseline at a scaling factor
\* of one unit
C18_Witness ==
    /\ FirstCallWas("deriveSettlementAmount")
    /\ mathArgs.amount > mathArgs.baselinePriorityFee
    /\ mathArgs.scalingFactor = WAD
    /\ mathArgs.minimumAmount > 0
    /\ chain[1] = Returned(mathArgs.minimumAmount)

\* C19: exact-out is unsupported: deriveSettlementAmount with
\* scalingFactor < WAD and priorityFee > baselinePriorityFee throws
\* 'unimplemented', and so does derivePriorityFee with scalingFactor < WAD
\* and desiredSettlement # minimumAmount.
C19_ExactOutUnimplemented ==
    /\ (/\ FirstCallWas("deriveSettlementAmount")
        /\ mathArgs.scalingFactor < WAD
        /\ mathArgs.amount > mathArgs.baselinePriorityFee)
       => chain[1] = Threw("unimplemented")
    /\ (/\ FirstCallWas("derivePriorityFee")
        /\ mathArgs.scalingFactor < WAD
        /\ mathArgs.amount # mathArgs.minimumAmount)
       => chain[1] = Threw("unimplemented")

\* the inverse threw on an exact-out scaling factor
C19_Witness ==
    /\ FirstCallWas("derivePriorityFee")
    /\ mathArgs.scalingFactor < WAD
    /\ mathArgs.amount > mathArgs.minimumAmount
    /\ chain[1].threw /\ chain[1].error = "unimplemented"

\* C20: derivePriorityFee returns baselinePriorityFee whenever
\* desiredSettlement = minimumAmount or scalingFactor = WAD.
C20_BaselineReturned ==
    (/\ FirstCallWas("derivePriorityFee")
     /\ \/ mathArgs.amount = mathArgs.minimumAmount
        \/ mathArgs.scalingFactor = WAD)
    => chain[1] = Returned(mathArgs.baselinePriorityFee)

\* the baseline came back for a settlement equal to the minimum at an
\* exact-out scaling factor
C20_Witness ==
    /\ FirstCallWas("derivePriorityFee")
    /\ mathArgs.amount = mathArgs.minimumAmount
    /\ mathArgs.scalingFactor < WAD
    /\ mathArgs.baselinePriorityFee > 0
    /\ chain[1] = Returned(mathArgs.baselinePriorityFee)

\* ------------------------------------------------------------ claims on ingestion

\* what verifyBroadcastRequest would answer for a body, the registration
\* oracle being the one of the state
PayloadVerifies(p) ==
    LET hash == CompactHash(p.compact)
        prefix == ChainPrefixOf(p.chainId)
    IN  /\ \/ verifySignature(hash, p.sponsorSignature, p.compact.sponsor, prefix)
           \/ RegistrationReportedActive
        /\ verifySignature(hash, p.allocatorSignature, ALLOCATOR_ADDRESS, prefix)

\* handler h has taken its request into the store or sent it to a viewer
Relayed(h) ==
    storedRequest[h] # <<>> \/ \E c \in Conns : newRequestsSent[h][c] > 0

\* C1: a request is stored, and sent to viewers, only if its sponsor
\* signature (or an active registration) and its allocator signature verify.
C1_OnlyVerifiedRelayed ==
    \A h \in Handlers : Relayed(h) => PayloadVerifies(payload[h])

\* C2: a request whose compact.expires (seconds) is not after the receipt
\* time is neither stored nor sent to viewers.
C2_ExpiredNotRelayed ==
    \A h \in Handlers :
        Relayed(h) => payload[h].compact.expires * 1000 > startTime[h]

\* C3: a broadcast sends the newRequest envelope exactly once to each
\* connection that was registered and OPEN when it started, and to no
\* other, whatever the other connections do afterwards.
C3_OneEnvelopePerOpenConnection ==
    \A h \in Handlers :
        broadcast[h] # "none" =>
            \A c \in Conns :
                newRequestsSent[h][c] = IF c \in openAtStart[h] THEN 1 ELSE 0

\* a broadcast over two open connections has completed: one acknowledged,
\* the other never did
C3_Witness ==
    \E h \in Handlers, c, d \in Conns :
        /\ broadcast[h] = "resolved"
        /\ wait[h][c] = "acked" /\ wait[h][d] = "receiptTimeout"
        /\ newRequestsSent[h][c] = 1 /\ newRequestsSent[h][d] = 1

\* every wait that is pending has its receipt timer armed, and the clock is
\* within the timer's budget
WaitsAreTimed ==
    \A h \in Handlers, c \in Conns :
        wait[h][c] = "pending" =>
            /\ receiptTimer[h][c]
            /\ now <= startTime[h] + RECEIPT_TIMEOUT_MS + TimerSlackMs

\* C4: a broadcast that has started completes: each per-client wait ends
\* by acknowledgement, send failure or receipt timeout, within the timeout
\* budget, also for a client that never acknowledges or has gone away.
C4_BroadcastCompletes ==
    /\ []WaitsAreTimed
    /\ \A h \in Handlers : (broadcast[h] = "pending") ~> (broadcast[h] = "resolved")

\* a broadcast completed although the message went out to a client that
\* never acknowledged and has disconnected
C4_Witness ==
    \E h \in Handlers, c \in Conns :
        /\ broadcast[h] = "resolved"
        /\ sending[h][c] = "sent"
        /\ wait[h][c] = "receiptTimeout"
        /\ readyState[c] = "CLOSED"

\* C5: once a request is stored, the answer to its POST is success with
\* its id, and the request stays in the store, whatever the fan-out does
\* (send failures, missing acknowledgements, the overall timeout).
C5_StoredIsAccepted ==
    \A h \in Handlers :
        storedRequest[h] # <<>> =>
            /\ payload[h].compact.id \in DOMAIN requests
            /\ requests[payload[h].compact.id].compact = payload[h].compact
            /\ pc[h] \in {"broadcasting", "responded"}
            /\ pc[h] = "responded" =>
                   /\ response[h][1].success
                   /\ response[h][1].status = 200
                   /\ response[h][1].requestId = payload[h].compact.id

\* the overall broadcast timeout hit, with a failed send: the POST was
\* answered success with the warning and the request is in the store
C5_Witness ==
    \E h \in Handlers :
        /\ pc[h] = "responded"
        /\ response[h][1].warning = BROADCAST_WARNING
        /\ failCount[h] > 0
        /\ payload[h].compact.id \in DOMAIN requests

\* the characters that occur in a string
CharsOf(s) == {s[i][1] : i \in DOMAIN s}

\* the string begins with the two characters 0x
Has0xPrefix(s) == Take(s, 2) = << <<"0", 1>>, <<"x", 1>> >>

\* '0x' and then exactly 40 hexadecimal digits
WellFormedAddress(a) ==
    /\ StrLen(a) = 42
    /\ Has0xPrefix(a)
    /\ CharsOf(Slice(a, 2)) \subseteq HexChars

\* '0x' and then a non-empty, even number of hexadecimal digits
WellFormedSignature(sig) ==
    /\ StrLen(sig) > 2 /\ StrLen(sig) % 2 = 0
    /\ Has0xPrefix(sig)
    /\ CharsOf(Slice(sig, 2)) \subseteq HexChars

\* one of the five addresses or of the two signatures is badly formed
BadlyFormatted(p) ==
    \/ \E a \in {p.compact.arbiter, p.compact.sponsor, p.compact.mandate.tribunal,
                 p.compact.mandate.recipient, p.compact.mandate.token} :
            ~WellFormedAddress(a)
    \/ ~WellFormedSignature(p.sponsorSignature)
    \/ ~WellFormedSignature(p.allocatorSignature)

\* C6: a body with a badly formed address or signature is answered 400
\* before any hashing or lookup: nothing is stored and nothing is sent.
C6_BadFormatRejectedFirst ==
    \A h \in Handlers :
        (payload[h] # <<>> /\ BadlyFormatted(payload[h])) =>
            /\ pc[h] = "responded"
            /\ response[h][1].status = 400 /\ ~response[h][1].success
            /\ work[h] = {}
            /\ ~Relayed(h)
            /\ \A id \in DOMAIN requests :
                   requests[id].compact # payload[h].compact

\* a body whose only fault is the last field checked was answered 400
C6_Witness ==
    \E h \in Handlers :
        /\ pc[h] = "responded"
        /\ BadlyFormatted(payload[h])
        /\ response[h][1].error = "Invalid allocator signature format"

\* ------------------------------------------------------------ claims on deriveClaimHash

\* the two intents are the same but for the letter case of their addresses
SameButForCase(a, b) ==
    /\ \A f \in FieldsOfIntent : Sent(a, f) = Sent(b, f)
    /\ \A f \in FieldsOfIntent : Sent(a, f) =>
          IF f \in AddressFields
          THEN ToLowerCase(ValueOf(a, f)) = ToLowerCase(ValueOf(b, f))
          ELSE ValueOf(a, f) = ValueOf(b, f)

\* the tuples abi.encode is given for two intents that were both hashed
\* differ in some field
EncodedDiffer(a, b) ==
    \E f \in FieldsOfIntent :
        IF f \in AddressFields \/ f[2] = "salt"
        THEN ToLowerCase(ValueOf(a, f)) # ToLowerCase(ValueOf(b, f))
        ELSE ValueOf(Encoded(NonceOrEmpty(a)), f) # ValueOf(Encoded(NonceOrEmpty(b)), f)

\* C29: deriveClaimHash, in client/utils and in signature.ts, is
\* case-insensitive on arbiter, sponsor, tribunal, recipient and token: of two
\* intents that differ only in the letter case of those addresses, if one
\* is hashed so is the other and the two claim hashes are identical, while
\* two intents whose encoded tuples differ in a field get different hashes.
C29_CaseInsensitiveOnAddresses ==
    hashPc = "calls" =>
        \A impl \in Implementations :
            LET x == hashOut[<<impl, 1>>]
                y == hashOut[<<impl, 2>>]
            IN  (x # NoValue /\ y # NoValue) =>
                    /\ (SameButForCase(hashArgs[1], hashArgs[2]) /\ (~x.threw \/ ~y.threw))
                          => (~x.threw /\ ~y.threw /\ x.value = y.value)
                    /\ (~x.threw /\ ~y.threw /\ EncodedDiffer(hashArgs[1], hashArgs[2]))
                          => x.value # y.value

\* the field is zero: the number 0, the zero address, 32 zero bytes, or a
\* numeral whose value is 0
IsZero(compact, f) ==
    IF f[2] = "chainId" \/ f \in AddressFields \/ f[2] = "salt"
    THEN ValueOf(compact, f) = ZeroOf(f)
    ELSE ValueOf(compact, f) # <<>> /\ IsDecimal(ValueOf(compact, f))
            /\ BigInt(ValueOf(compact, f)) = 0

MissingOrZero(compact, f) ==
    \/ ~Sent(compact, f)
    \/ ValueOf(compact, f) = EmptyOf(f)
    \/ IsZero(compact, f)

\* C30: whenever a mandate field or an intent field is missing or zero,
\* client/utils deriveClaimHash throws the "<field> is required" Error of
\* such a field, and it has made no keccak256 call by then.
C30_MissingOrZeroFieldIsRejected ==
    hashPc = "calls" =>
        \A i \in {1, 2} :
            LET out == hashOut[<<"utils", i>>]
            IN  (out # NoValue /\ \E f \in FieldsOfIntent : MissingOrZero(hashArgs[i], f)) =>
                    /\ out.threw
                    /\ out.error.message = "is required"
                    /\ MissingOrZero(hashArgs[i], <<out.error.on, out.error.field>>)
                    /\ out.hashes = 0

\* ------------------------------------------------------------ claims on the store

\* an expiry of the entry lies more than 3600 s before the clock, in whole seconds
ExpiredForAnHour(entry, t) ==
    \/ t \div 1000 - entry.compact.expires > 3600
    \/ t \div 1000 - entry.compact.mandate.expires > 3600

CallsOf(op) == {storeCalls[k] : k \in {i \in DOMAIN storeCalls : storeCalls[i].op = op}}

\* C21: the list never contains and get never finds an entry one of whose
\* expiries lies more than 3600 s back; get on such an id answers not-found
\* and deletes it, list deletes all of them, and neither call removes an
\* entry whose expiries are both within the hour.
C21_StaleNeverServed ==
    /\ \A call \in CallsOf("getRequests") :
          /\ \A i \in DOMAIN call.result[1] :
                ~ExpiredForAnHour(call.result[1][i], call.at)
          /\ DOMAIN call.after \subseteq DOMAIN call.before
          /\ \A id \in DOMAIN call.before :
                IF ExpiredForAnHour(call.before[id], call.at)
                THEN id \notin DOMAIN call.after
                ELSE id \in DOMAIN call.after /\ call.after[id] = call.before[id]
    /\ \A call \in CallsOf("getRequest") :
          LET id == call.arg[1]
              stale == id \in DOMAIN call.before
                       /\ ExpiredForAnHour(call.before[id], call.at)
          IN  /\ call.result # NoValue => ~ExpiredForAnHour(call.result[1], call.at)
              /\ stale => call.result = NoValue /\ id \notin DOMAIN call.after
              /\ DOMAIN call.after \subseteq DOMAIN call.before
              /\ \A other \in DOMAIN call.before :
                    (other # id \/ ~stale) =>
                        /\ other \in DOMAIN call.after
                        /\ call.after[other] = call.before[other]
              /\ (id \in DOMAIN call.before /\ ~stale) => call.result = <<call.before[id]>>

\* a list call that deleted an entry expired for more than the hour and
\* returned another one
C21_Witness ==
    \E call \in CallsOf("getRequests") :
        /\ \E id \in DOMAIN call.before : ExpiredForAnHour(call.before[id], call.at)
        /\ call.result[1] # <<>>
        /\ requests = call.after

\* C22: every entry is kept under its own intent id, so no two entries share
\* one; add under an id already present replaces the entry with the later
\* request, stamped with the time of the call, and changes no other entry.
C22_LastWriteWins ==
    /\ \A id \in DOMAIN requests : requests[id].compact.id = id
    /\ \A call \in CallsOf("addRequest") :
          LET req == call.arg[1]
              id == req.compact.id
          IN  /\ DOMAIN call.after = DOMAIN call.before \cup {id}
              /\ call.after[id] = [req EXCEPT !.timestamp = call.at]
              /\ \A other \in DOMAIN call.before \ {id} :
                    call.after[other] = call.before[other]

\* an add that replaced a different, earlier request of the same id while
\* another id was stored
C22_Witness ==
    \E call \in CallsOf("addRequest") :
        LET id == call.arg[1].compact.id IN
        /\ id \in DOMAIN call.before
        /\ call.before[id].compact # call.arg[1].compact
        /\ call.before[id].timestamp < call.at
        /\ DOMAIN call.before # {id}

\* the body of handler h was accepted
Accepted(h) ==
    pc[h] = "responded" /\ response[h] # <<>> /\ response[h][1].success

\* the last store calls are those of an ingestion that has just finished
JustIngested ==
    /\ \E h \in Handlers : Accepted(h)
    /\ storeCalls # <<>>
    /\ storeCalls[Len(storeCalls)].op = "clearOldRequests"
    /\ storeCalls[Len(storeCalls)].at = now

\* C23: an accepted ingestion ends with the age rule applied: right after
\* it the store has no entry stamped more than 24 h ago, and the rule
\* removed no entry that was not older than that.
C23_NoEntryOlderThanHorizon ==
    /\ \A h \in Handlers :
          (Accepted(h) /\ storeCalls # <<>> /\ storeCalls[1].op = "addRequest")
              => Len(storeCalls) = 2 /\ storeCalls[2].op = "clearOldRequests"
    /\ JustIngested =>
          /\ requests = storeCalls[Len(storeCalls)].after
          /\ \A id \in DOMAIN requests : ~(now - requests[id].timestamp > 86400000)
    /\ \A call \in CallsOf("clearOldRequests") :
          /\ DOMAIN call.after \subseteq DOMAIN call.before
          /\ \A id \in DOMAIN call.before :
                ~(call.at - call.before[id].timestamp > 86400000)
                    => id \in DOMAIN call.after /\ call.after[id] = call.before[id]

\* an ingestion has just finished and its age rule removed an entry
C23_Witness ==
    /\ JustIngested
    /\ LET call == storeCalls[Len(storeCalls)] IN
       /\ DOMAIN call.after # DOMAIN call.before
       /\ call.after # <<>>

\* C24: the list is ordered newest first and holds every entry that is not
\* stale exactly once, and nothing else.
C24_NewestFirst ==
    \A call \in CallsOf("getRequests") :
        LET list == call.result[1] IN
        /\ \A i \in 1..(Len(list) - 1) : list[i].timestamp >= list[i + 1].timestamp
        /\ \A id \in DOMAIN call.before :
              ~ExpiredForAnHour(call.before[id], call.at)
                  => Cardinality({i \in DOMAIN list : list[i] = call.before[id]}) = 1
        /\ \A i \in DOMAIN list :
              /\ list[i].compact.id \in DOMAIN call.before
              /\ list[i] = call.before[list[i].compact.id]
              /\ \A j \in DOMAIN list : list[j].compact.id = list[i].compact.id => i = j

\* a list of two entries stored at different times
C24_Witness ==
    \E call \in CallsOf("getRequests") :
        /\ Len(call.result[1]) = 2
        /\ call.result[1][1].timestamp > call.result[1][2].timestamp

\* ------------------------------------------------------------ claims on the heartbeat

\* the last tick of connection c called ws.terminate()
TerminatedByHeartbeat(c) == lastBeat[c] # NoValue /\ lastBeat[c][1].did = "terminate"

\* a tick that follows a tick without a liveness signal in between
\* terminates the connection; the first tick and a tick that follows a
\* signal only ping
HeartbeatRule ==
    \A c \in Conns :
        lastBeat[c] # NoValue =>
            /\ lastBeat[c][1].kind = "quiet" <=> lastBeat[c][1].did = "terminate"
            /\ lastBeat[c][1].kind \in {"first", "answered"} <=> lastBeat[c][1].did = "ping"
            /\ TerminatedByHeartbeat(c) => readyState[c] \in {"CLOSING", "CLOSED"}

\* C25: when no pong and no other liveness signal of a connection arrives
\* between two consecutive ticks, the second tick terminates the connection,
\* which is then removed from the connection set; a connection that answers
\* before each next tick is never terminated by the heartbeat.
C25_HeartbeatTerminatesQuiet ==
    /\ []HeartbeatRule
    /\ \A c \in Conns : TerminatedByHeartbeat(c) ~> c \notin clients

\* one connection terminated while it was open and removed, another one
\* pinged again after it answered
C25_Witness ==
    /\ TerminatedByHeartbeat(1)
    /\ lastBeat[1][1].readyState = "OPEN"
    /\ 1 \notin clients
    /\ lastBeat[2] # NoValue
    /\ lastBeat[2][1].kind = "answered"
    /\ 2 \in clients

\* no heartbeat timer is pending, no socket is open and none is registered
Quiet ==
    /\ \A c \in Conns : ~pingInterval[c] /\ readyState[c] \notin {"OPEN", "CLOSING"}
    /\ clients = {}

\* C26: after the socket server has been shut down, every heartbeat timer
\* is cancelled and every socket closed and deregistered.
C26_ShutdownQuiesces == (wssState = "closing") ~> Quiet

\* ------------------------------------------------------------ claims on the viewer

\* 1 s doubled k - 1 times, at most 30 s, in ms
Backoff(k) == IF 1000 * 2 ^ (k - 1) <= 30000 THEN 1000 * 2 ^ (k - 1) ELSE 30000

\* C27: after k connections in a row have failed or dropped since the last
\* successful open, the viewer waits min(1 s * 2^(k-1), 30 s) before the
\* next attempt; a successful open starts the count again.
C27_BackoffDoublesFromOneSecond ==
    lastWait # NoValue => lastWait[1].delay = Backoff(lastWait[1].k)

\* the viewer has an open socket that is not its first
Reconnected == opens = 2 /\ \E s \in Sockets : socket[s] = "OPEN"

\* C28: after a successful reconnect the viewer asks the server for the
\* full list again, so an intent relayed while it had no open socket and
\* still stored comes to be in its view.
C28_ReconnectRefetches ==
    \A id \in Ids :
        (Reconnected /\ id \in missed /\ id \in DOMAIN requests /\ id \notin viewRequests)
            ~> (id \in viewRequests \/ id \notin DOMAIN requests)

\* ------------------------------------------------------------ claims on the relay

\* this step hands a newRequest envelope of handler h to connection c
SendsNewRequest(h, c) == newRequestsSent'[h][c] > newRequestsSent[h][c]

\* C31: the intent is stored before its fan-out starts: at the moment a
\* newRequest for id X is handed to a connection, X is in the store, and a
\* getRequest(X) or a getRequests() made then returns the stored request
\* unless it is stale.
C31_StoredBeforeFanOut ==
    [][\A h \in Handlers, c \in Conns :
          SendsNewRequest(h, c) =>
              LET sent == storedRequest'[h][1]
                  id == sent.compact.id
              IN  /\ id \in DOMAIN requests'
                  /\ requests'[id] = sent
                  /\ ~isStaleRequest(sent, now') =>
                        /\ getRequest(requests', id, now') = <<sent>>
                        /\ \A list \in getRequests(requests', now') :
                              \E i \in DOMAIN list : list[i] = sent]_vars

\* a newRequest has been handed to a connection and the broadcast is under
\* way, with the request in the store
C31_Witness ==
    \E h \in Handlers, c \in Conns :
        /\ pc[h] = "broadcasting"
        /\ newRequestsSent[h][c] = 1
        /\ storedRequest[h][1].compact.id \in DOMAIN requests
        /\ ~isStaleRequest(storedRequest[h][1], now)

\* the acknowledgment of handler h's broadcast
AckOf(h) == [type |-> "requestReceived", requestId |-> storedRequest[h][1].compact.id]

\* C32: the wait of a broadcast of intent X on a connection is resolved as
\* acknowledged only by a requestReceived frame with requestId X that
\* arrived on that connection: a frame with another id, of another type or
\* not JSON, and a frame on another connection, never resolve it.
C32_OnlyOwnAckResolves ==
    [][\A h \in Handlers, c \in Conns :
          (wait[h][c] = "pending" /\ wait'[h][c] = "acked") => heard' = <<c, AckOf(h)>>]_vars

\* a wait resolved by the acknowledgment of its connection while the wait
\* of the other connection is still pending
C32_Witness ==
    /\ wait[1][1] = "acked"
    /\ heard = <<1, AckOf(1)>>
    /\ wait[1][2] = "pending"

\* C33: for a newRequest received on an open socket the viewer hands the
\* payload to the application and then sends exactly one requestReceived
\* with the id of the payload's compact; for an application-level ping it
\* sends exactly one pong; for any other frame it sends nothing.
C33_ViewerAnswersEachFrame ==
    replied # NoValue =>
        LET frame == replied[1].frame
            did == replied[1].did
        IN  IF frame.type = "newRequest"
            THEN did = <<[do |-> "onMessage", type |-> "newRequest",
                          requestId |-> frame.requestId],
                         [do |-> "send", type |-> "requestReceived",
                          requestId |-> frame.requestId]>>
            ELSE IF frame.type = "ping"
            THEN did = <<[do |-> "send", type |-> "pong", requestId |-> 0]>>
            ELSE did = <<>>

\* a newRequest has been answered on the socket it arrived on and is in
\* the view
C33_Witness ==
    /\ replied # NoValue
    /\ replied[1].frame.type = "newRequest"
    /\ replied[1].frame.requestId \in viewRequests
    /\ Len(replied[1].did) = 2

\* ------------------------------------------------- claims on verify's frame

\* the received request with the two fields the fallback may patch taken
\* from the request as it stands
Patched ==
    [received EXCEPT !.sponsorSignature = request.sponsorSignature,
                     !.compact.expires = request.compact.expires]

\* C34: verify modifies the request only when the on-chain registration
\* fallback applies (sponsor signature invalid and registration active),
\* and then only sponsorSignature and compact.expires; with a valid sponsor
\* signature, an inactive registration, an oracle error or an unsupported
\* chain the request is left exactly as received.
C34_RequestMutatedOnlyByFallback ==
    /\ request = Patched
    /\ request # received =>
          /\ isOnchainRegistration
          /\ received.chainId \in SupportedChainIds
          /\ ~SponsorRecovers
          /\ RegistrationReportedActive
    /\ (\/ received.chainId \notin SupportedChainIds
        \/ SponsorRecovers
        \/ oracle.throws
        \/ ~oracle.isActive) => request = received

\* verify returned after the fallback replaced the sponsor signature and
\* lowered compact.expires
C34_Witness ==
    /\ verifyPc = "returned"
    /\ isOnchainRegistration
    /\ request.sponsorSignature = ZeroSignature
    /\ received.sponsorSignature # ZeroSignature
    /\ request.compact.expires < received.compact.expires
    /\ request = Patched

\* ------------------------------------------- claims on a closed connection

\* C35: once a connection has emitted close (or error), it is no longer in
\* the connection set, its heartbeat timer is cancelled and no further
\* ping is sent to it.
C35_ClosedConnectionIsDestroyed ==
    \A c \in Conns :
        /\ readyState[c] = "CLOSED" => c \notin clients /\ ~pingInterval[c]
        /\ lastBeat[c] # NoValue => lastBeat[c][1].readyState # "CLOSED"

\* C36: when a broadcastRequest call completes, every message listener and
\* receipt timer it registered on a connection has been removed, also on
\* the connections whose wait ended by receipt timeout.
C36_NoListenerOutlivesBroadcast ==
    \A h \in Handlers, c \in Conns :
        broadcast[h] = "resolved" => ~listener[h][c] /\ ~receiptTimer[h][c]

\* ------------------------------------------- claims on overlapping broadcasts

\* the step resolves the wait of handler h on connection c as acknowledged
Acked(h, c) == wait[h][c] = "pending" /\ wait'[h][c] = "acked"

\* C37: a per-client wait is counted as acknowledged only by an
\* acknowledgment sent in response to that broadcast's own newRequest; when
\* two broadcasts of the same intent id overlap on one connection, a single
\* requestReceived does not resolve both waits as acknowledged.
C37_OneAckResolvesOneWait ==
    [][\A c \in Conns : \A h1, h2 \in Handlers :
          (Acked(h1, c) /\ Acked(h2, c)) => h1 = h2]_vars

\* ------------------------------------------- claims on the viewer's reconnects

\* the sockets of the viewer that are not closed
NonClosed == {s \in Sockets : socket[s] \in {"CONNECTING", "OPEN", "CLOSING", "ABORTING"}}

\* C38: the reconnecting client has at most one pending reconnect timer and
\* at most one non-closed socket at any time, and its backoff counter has
\* been incremented once for each connection that has failed since the last
\* open, whatever the order of the error and close events.
C38_OneTimerOneSocketOneIncrement ==
    /\ Cardinality(timers) <= 1
    /\ Cardinality(NonClosed) <= 1
    /\ reconnectAttemptsRef <= drops

\* ------------------------------------------- claims on the hash verify checks

\* C39: if verify returns isValid = true, the claim hash against which the
\* signatures (or the registration) were checked is the claim hash derived
\* from the request's own compact and mandate as they stand when verify
\* returns.
C39_ValidOnlyForOwnClaimHash ==
    (verifyPc = "returned" /\ verifyResult.isValid)
    => claimHash = CompactHash(request.compact)

\* ------------------------------------------- claims on the inverse's rounding

\* C40: exact-in (scalingFactor > WAD, minimumAmount > 0), target
\* S >= minimumAmount: derivePriorityFee returns a fee that is at least the
\* baseline, and the settlement at that fee is at most S.
C40_InverseNeverOvershoots ==
    (/\ FirstCallWas("derivePriorityFee")
     /\ mathArgs.scalingFactor > WAD /\ mathArgs.minimumAmount > 0
     /\ mathArgs.amount >= mathArgs.minimumAmount)
    => /\ ~chain[1].threw
       /\ chain[1].value >= mathArgs.baselinePriorityFee
       /\ Len(chain) >= 2 => (~chain[2].threw /\ chain[2].value <= mathArgs.amount)

\* a target between two settlements: the fee is above a baseline that is
\* not zero, and the settlement at it is above the minimum and below the
\* target
C40_Witness ==
    /\ FirstCallWas("derivePriorityFee") /\ Len(chain) >= 2
    /\ mathArgs.scalingFactor > WAD /\ mathArgs.minimumAmount > 0
    /\ mathArgs.baselinePriorityFee > 0
    /\ chain[1].value > mathArgs.baselinePriorityFee
    /\ chain[2].value > mathArgs.minimumAmount
    /\ chain[2].value < mathArgs.amount
====
